---------------------------- MODULE Spec2Model ----------------------------
(***************************************************************************)
(* Model of the BEAT installer's IDE adapters (tools/cli/installers/lib/   *)
(* ide/*.js): artifact collection from the content tree, per-adapter       *)
(* rendering and naming, and cleanup of earlier output.                    *)
(*                                                                         *)
(* Strings are sequences of one-character strings, so that startsWith,     *)
(* endsWith, replace, split and the regular-expression probes are computed *)
(* as the JavaScript computes them.  Paths are sequences of such names.    *)
(***************************************************************************)
EXTENDS Naturals, Sequences, FiniteSets

(***************************************************************************)
(* JavaScript string built-ins                                             *)
(***************************************************************************)

\* String.prototype.startsWith
StartsWith(s, p) ==
  /\ Len(p) <= Len(s)
  /\ SubSeq(s, 1, Len(p)) = p

\* String.prototype.endsWith
EndsWith(s, p) ==
  /\ Len(p) <= Len(s)
  /\ SubSeq(s, Len(s) - Len(p) + 1, Len(s)) = p

\* the literal p occurs in s at (1-based) position i
At(s, p, i) ==
  /\ i >= 1
  /\ i + Len(p) - 1 <= Len(s)
  /\ SubSeq(s, i, i + Len(p) - 1) = p

\* String.prototype.indexOf, 1-based; 0 when p does not occur
IndexOf(s, p) ==
  LET hits == {i \in 1..Len(s) : At(s, p, i)}
  IN IF hits = {} THEN 0 ELSE CHOOSE i \in hits : \A j \in hits : i <= j

\* String.prototype.includes
Includes(s, p) == IndexOf(s, p) # 0

\* String.prototype.replace(p, r) with a string pattern: the first occurrence only
ReplaceFirst(s, p, r) ==
  LET i == IndexOf(s, p)
  IN IF i = 0 THEN s
     ELSE SubSeq(s, 1, i - 1) \o r \o SubSeq(s, i + Len(p), Len(s))

\* String.prototype.replaceAll(p, r) with a non-empty string pattern
RECURSIVE ReplaceAll(_, _, _)
ReplaceAll(s, p, r) ==
  LET i == IndexOf(s, p)
  IN IF i = 0 THEN s
     ELSE SubSeq(s, 1, i - 1) \o r \o ReplaceAll(SubSeq(s, i + Len(p), Len(s)), p, r)

\* String.prototype.split(c) on a one-character separator
RECURSIVE Split(_, _)
Split(s, c) ==
  LET i == IndexOf(s, <<c>>)
  IN IF i = 0 THEN <<s>>
     ELSE <<SubSeq(s, 1, i - 1)>> \o Split(SubSeq(s, i + 1, Len(s)), c)

\* Array.prototype.join
RECURSIVE Join(_, _)
Join(parts, sep) ==
  IF Len(parts) = 0 THEN <<>>
  ELSE IF Len(parts) = 1 THEN parts[1]
  ELSE parts[1] \o sep \o Join(Tail(parts), sep)

LowerCase == <<"a","b","c","d","e","f","g","h","i","j","k","l","m",
               "n","o","p","q","r","s","t","u","v","w","x","y","z">>

UpperCase == <<"A","B","C","D","E","F","G","H","I","J","K","L","M",
               "N","O","P","Q","R","S","T","U","V","W","X","Y","Z">>

\* toUpperCase of one character
UpperChar(c) ==
  IF \E i \in 1..Len(LowerCase) : LowerCase[i] = c
  THEN UpperCase[CHOOSE i \in 1..Len(LowerCase) : LowerCase[i] = c]
  ELSE c

\* String.prototype.toUpperCase
ToUpperCase(s) == [i \in 1..Len(s) |-> UpperChar(s[i])]

\* the character U+0060 (grave accent), which a TLA+ string literal cannot hold
Backtick == "U+0060"

\* the characters the regular-expression class \s and trim() treat as white space
IsSpace(c) == c \in {" ", "\n", "\t", "\r"}

\* String.prototype.trim
Trim(s) ==
  LET keep == {i \in 1..Len(s) : ~IsSpace(s[i])}
  IN IF keep = {} THEN <<>>
     ELSE SubSeq(s, CHOOSE i \in keep : \A j \in keep : i <= j,
                    CHOOSE i \in keep : \A j \in keep : i >= j)

(***************************************************************************)
(* Regular-expression probes                                               *)
(***************************************************************************)

\* first position at or after i whose character is not white space (Len(s)+1 if none)
SkipSpace(s, i) ==
  LET stops == {j \in i..Len(s) : ~IsSpace(s[j])}
  IN IF stops = {} THEN Len(s) + 1 ELSE CHOOSE j \in stops : \A k \in stops : j <= k

\* first position at or after i whose character is stop (Len(s)+1 if none)
RunEnd(s, i, stop) ==
  LET stops == {j \in i..Len(s) : s[j] = stop}
  IN IF stops = {} THEN Len(s) + 1 ELSE CHOOSE j \in stops : \A k \in stops : j <= k

\* A match of  lit \s* open ([^stop]+) close  starting at position i, where close
\* begins with the character stop and ws says whether \s* is part of the pattern.
\* [^stop]+ is greedy and what follows it starts with stop, so the capture is the
\* maximal run of characters other than stop.
ProbeAt(s, i, lit, ws, open, stop, close) ==
  LET a == i + Len(lit)
      b == IF ws THEN SkipSpace(s, a) ELSE a
      c == b + Len(open)
      e == RunEnd(s, c, stop)
  IN /\ At(s, lit, i)
     /\ At(s, open, b)
     /\ e > c
     /\ At(s, close, e)

\* s.match(/lit\s*open([^stop]+)close/): <<capture>> of the leftmost match, <<>> if none
Probe(s, lit, ws, open, stop, close) ==
  LET hits == {i \in 1..Len(s) : ProbeAt(s, i, lit, ws, open, stop, close)}
  IN IF hits = {} THEN <<>>
     ELSE LET i == CHOOSE h \in hits : \A j \in hits : h <= j
              a == i + Len(lit)
              b == IF ws THEN SkipSpace(s, a) ELSE a
              c == b + Len(open)
          IN <<SubSeq(s, c, RunEnd(s, c, stop) - 1)>>

\* content.match(/title="([^"]+)"/)
MatchTitleAttr(s) == Probe(s, <<"t","i","t","l","e","=">>, FALSE, <<"\"">>, "\"", <<"\"">>)

\* content.match(/name="([^"]+)"/)
MatchNameAttr(s) == Probe(s, <<"n","a","m","e","=">>, FALSE, <<"\"">>, "\"", <<"\"">>)

\* content.match(/<name>([^<]+)<\/name>/)
MatchNameElement(s) ==
  Probe(s, <<"<","n","a","m","e",">">>, FALSE, <<>>, "<", <<"<","/","n","a","m","e",">">>)

\* content.match(/description:\s*"([^"]+)"/)
MatchDescriptionField(s) ==
  Probe(s, <<"d","e","s","c","r","i","p","t","i","o","n",":">>, TRUE, <<"\"">>, "\"", <<"\"">>)

\* content.match(/name:\s*"([^"]+)"/)
MatchNameField(s) == Probe(s, <<"n","a","m","e",":">>, TRUE, <<"\"">>, "\"", <<"\"">>)

\* positions p of a "\n" that the first  \s*\n  of the frontmatter pattern can end at:
\* everything between the opening --- and p is white space
FrontOpenEnds(s) ==
  {p \in 4..Len(s) : s[p] = "\n" /\ \A k \in 4..p : IsSpace(s[k])}

\* positions e of a "\n" ending  \n---\s*\n  when that part starts at position q
FrontCloseEnds(s, q) ==
  IF At(s, <<"\n","-","-","-">>, q)
  THEN {e \in (q + 4)..Len(s) : s[e] = "\n" /\ \A k \in (q + 4)..e : IsSpace(s[k])}
  ELSE {}

\* End of the match of /^---\s*\n[\s\S]*?\n---\s*\n/ in s, 0 when there is none.  The
\* first \s* is greedy (the last possible p), [\s\S]*? is lazy (the first possible
\* q) and the second \s* is greedy again (the last possible e).
FrontmatterEnd(s) ==
  LET ps == {p \in FrontOpenEnds(s) :
               \E q \in (p + 1)..Len(s) : FrontCloseEnds(s, q) # {}}
  IN IF ~StartsWith(s, <<"-","-","-">>) \/ ps = {} THEN 0
     ELSE LET p  == CHOOSE x \in ps : \A y \in ps : x >= y
              qs == {q \in (p + 1)..Len(s) : FrontCloseEnds(s, q) # {}}
              q  == CHOOSE x \in qs : \A y \in qs : x <= y
              es == FrontCloseEnds(s, q)
          IN CHOOSE x \in es : \A y \in es : x >= y

\* content.replace(frontmatterRegex, '')
StripFrontmatter(s) == SubSeq(s, FrontmatterEnd(s) + 1, Len(s))

\* formatTitle(name): split on '-', capitalise each word, join with ' '
formatTitle(name) ==
  LET words == Split(name, "-")
      cap(w) == IF Len(w) = 0 THEN w ELSE <<UpperChar(w[1])>> \o Tail(w)
  IN Join([i \in 1..Len(words) |-> cap(words[i])], <<" ">>)

(***************************************************************************)
(* File system: a function from the existing paths to their nodes          *)
(***************************************************************************)

\* a directory the installer may add entries to and remove entries from
DirNode == [type |-> "dir", content |-> <<>>, mode |-> "rw"]

\* a file the installer may overwrite
FileNode(c) == [type |-> "file", content |-> c, mode |-> "rw"]

\* path q is p or lies below p
IsUnder(q, p) ==
  /\ Len(q) >= Len(p)
  /\ SubSeq(q, 1, Len(p)) = p

\* path.dirname
Dirname(p) == SubSeq(p, 1, Len(p) - 1)

\* path.basename
Basename(p) == p[Len(p)]

\* fs.pathExists
pathExists(f, p) == p \in DOMAIN f

\* fs.readdir: the names of the entries directly under p
readdir(f, p) ==
  {Basename(q) : q \in {x \in DOMAIN f : Len(x) = Len(p) + 1 /\ IsUnder(x, p)}}

\* fs.remove: the entry and everything below it (no error when it is absent)
fsRemove(f, p) ==
  [q \in {x \in DOMAIN f : ~IsUnder(x, p)} |-> f[q]]

\* fs.ensureDir: creates the directory and its missing ancestors
fsEnsureDir(f, p) ==
  [q \in DOMAIN f \cup {SubSeq(p, 1, k) : k \in 1..Len(p)} |->
     IF q \in DOMAIN f THEN f[q] ELSE DirNode]

\* fs.writeFile: creates or overwrites the file
fsWriteFile(f, p, c) ==
  [q \in DOMAIN f \cup {p} |-> IF q = p THEN FileNode(c) ELSE f[q]]

\* A handler's progress: the file system so far, the files written so far (with
\* the artifact each was written for), whether an I/O call has thrown, and the
\* steps taken so far on the source tree and on the destination.
NewRun(f) == [fs |-> f, written |-> <<>>, err |-> FALSE, log |-> <<>>]

\* the step is recorded
Logged(r, step) == [r EXCEPT !.log = Append(@, step)]

\* the call throws (EACCES, EPERM, EISDIR, ENOENT): the rest of the handler is skipped
Thrown(r, step) == [Logged(r, step) EXCEPT !.err = TRUE]

\* the handler scans the content tree and reads its source files
RunCollect(r) == IF r.err THEN r ELSE Logged(r, "collect")

\* mkdir is permitted for every directory fs.ensureDir has to create on the way to p
CanEnsureDir(f, p) ==
  \A k \in 2..Len(p) :
    (SubSeq(p, 1, k) \notin DOMAIN f /\ SubSeq(p, 1, k - 1) \in DOMAIN f)
      => f[SubSeq(p, 1, k - 1)].mode = "rw"

\* unlink and rmdir are permitted for p and everything below it: each entry's
\* directory is writable
CanRemove(f, p) ==
  \A q \in DOMAIN f : (IsUnder(q, p) /\ Len(q) > 1) => f[Dirname(q)].mode = "rw"

\* the file p may be created or overwritten
CanWriteFile(f, p) ==
  IF p \in DOMAIN f THEN f[p].mode = "rw" ELSE f[Dirname(p)].mode = "rw"

\* await fs.ensureDir(p) inside a handler
RunEnsureDir(r, p) ==
  IF r.err THEN r
  ELSE IF ~CanEnsureDir(r.fs, p) THEN Thrown(r, "mkdirFailed")
  ELSE [r EXCEPT !.fs = fsEnsureDir(r.fs, p)]

\* the delete inside try { } catch { }: a failure is swallowed and the handler goes on
RunRemove_swallow(r, p) ==
  IF r.err THEN r
  ELSE IF ~CanRemove(r.fs, p) THEN Logged(r, "removeFailed")
  ELSE [Logged(r, "remove") EXCEPT !.fs = fsRemove(r.fs, p)]

\* await fs.remove(p) inside a handler, for a p that exists. The destinations of
\* the model are writable throughout or read-only throughout, so a remove that
\* fails has removed nothing.
RunRemove(r, p) ==
  IF r.err THEN r
  ELSE IF ~CanRemove(r.fs, p) THEN Thrown(r, "removeFailed")
  ELSE [Logged(r, "remove") EXCEPT !.fs = fsRemove(r.fs, p)]

\* the write as fs.appendFile: an existing file keeps its text in front of the new
RunWriteFile_append(r, o) ==
  IF r.err THEN r
  ELSE IF \/ (o.path \in DOMAIN r.fs /\ r.fs[o.path].type = "dir")
          \/ Dirname(o.path) \notin DOMAIN r.fs
          \/ ~CanWriteFile(r.fs, o.path)
       THEN Thrown(r, "writeFailed")
       ELSE [Logged(r, "write") EXCEPT
               !.fs = fsWriteFile(r.fs, o.path,
                        IF o.path \in DOMAIN r.fs
                          THEN r.fs[o.path].content \o o.content
                          ELSE o.content),
               !.written = Append(r.written, o)]

\* await fs.writeFile(o.path, o.content) inside a handler: throws (EISDIR, ENOENT,
\* EACCES) when the path is a directory, its directory is missing or the write is
\* not permitted
RunWriteFile(r, o) ==
  IF r.err THEN r
  ELSE IF \/ (o.path \in DOMAIN r.fs /\ r.fs[o.path].type = "dir")
          \/ Dirname(o.path) \notin DOMAIN r.fs
          \/ ~CanWriteFile(r.fs, o.path)
       THEN Thrown(r, "writeFailed")
       ELSE [Logged(r, "write") EXCEPT
               !.fs = fsWriteFile(r.fs, o.path, o.content),
               !.written = Append(r.written, o)]

\* BaseIdeSetup.ensureDir
BaseEnsureDir(r, p) == RunEnsureDir(r, p)

\* BaseIdeSetup.writeFile: ensures the file's directory, then writes the file
BaseWriteFile(r, o) == RunWriteFile(RunEnsureDir(r, Dirname(o.path)), o)

\* for (const o of outs) await this.writeFile(o.path, o.content)
RECURSIVE BaseWriteAll(_, _)
BaseWriteAll(r, outs) ==
  IF Len(outs) = 0 THEN r
  ELSE BaseWriteAll(BaseWriteFile(r, Head(outs)), Tail(outs))

\* for (const p of paths) await this.ensureDir(p)
RECURSIVE EnsureAll(_, _)
EnsureAll(r, paths) ==
  IF Len(paths) = 0 THEN r
  ELSE EnsureAll(BaseEnsureDir(r, Head(paths)), Tail(paths))

(***************************************************************************)
(* Names and directories                                                   *)
(***************************************************************************)

\* the ownership marker tested by startsWith('beat-')
BeatPrefix == <<"b","e","a","t","-">>

\* the extension tested by endsWith('.md')
MdExt == <<".","m","d">>

AgentsDirName == <<"a","g","e","n","t","s">>

TasksDirName == <<"t","a","s","k","s">>

ToolsDirName == <<"t","o","o","l","s">>

WorkflowsDirName == <<"w","o","r","k","f","l","o","w","s">>

CoreModule == <<"c","o","r","e">>

\* the project directory a handler is given
projectDir == <<<<"p","r","o","j">>>>

\* os.homedir()
homeDir == <<<<"h","o","m","e">>>>

\* the installed content tree {projectDir}/beat
beatDir == projectDir \o <<<<"b","e","a","t">>>>

\* path.join of path segments into one string
PathJoin(segs) == Join(segs, <<"/">>)

(***************************************************************************)
(* The content tree and the collectors                                     *)
(*                                                                         *)
(* The content tree is the sequence, in directory-listing order, of its    *)
(* files: [path |-> segments below beatDir, content |-> text].             *)
(***************************************************************************)

\* the files directly in directory dir (segments below beatDir), in listing order
FilesIn(t, dir) ==
  SelectSeq(t, LAMBDA e : Len(e.path) = Len(dir) + 1 /\ IsUnder(e.path, dir))

\* fs.pathExists of a directory of the content tree
TreeDirExists(t, dir) ==
  \E i \in 1..Len(t) : Len(t[i].path) > Len(dir) /\ IsUnder(t[i].path, dir)

\* name: file.replace('.md', '')
StripMd(file) == ReplaceFirst(file, MdExt, <<>>)

\* getAgentsFromDir: the .md files that are no customization override and carry
\* no local-skip marker
getAgentsFromDir(t, dir, moduleName) ==
  LET keep(e) ==
        /\ EndsWith(Basename(e.path), MdExt)
        /\ ~Includes(Basename(e.path), <<".","c","u","s","t","o","m","i","z","e",".">>)
        /\ ~Includes(e.content, <<"l","o","c","a","l","s","k","i","p","=","\"","t","r","u","e","\"">>)
      files == SelectSeq(FilesIn(t, dir), keep)
  IN [i \in 1..Len(files) |->
        [path |-> beatDir \o files[i].path,
         name |-> StripMd(Basename(files[i].path)),
         module |-> moduleName]]

\* getTasksFromDir: every .md file
getTasksFromDir(t, dir, moduleName) ==
  LET files == SelectSeq(FilesIn(t, dir), LAMBDA e : EndsWith(Basename(e.path), MdExt))
  IN [i \in 1..Len(files) |->
        [path |-> beatDir \o files[i].path,
         name |-> StripMd(Basename(files[i].path)),
         module |-> moduleName]]

\* the loop over selectedModules giving up at the first module without a directory
RECURSIVE ModuleAgents_stopAtMissing(_, _)
ModuleAgents_stopAtMissing(t, mods) ==
  IF Len(mods) = 0 THEN <<>>
  ELSE IF ~TreeDirExists(t, <<Head(mods), AgentsDirName>>) THEN <<>>
  ELSE getAgentsFromDir(t, <<Head(mods), AgentsDirName>>, Head(mods))
         \o ModuleAgents_stopAtMissing(t, Tail(mods))

\* for (const moduleName of selectedModules) agents.push(...getAgentsFromDir(...))
RECURSIVE ModuleAgents(_, _)
ModuleAgents(t, mods) ==
  IF Len(mods) = 0 THEN <<>>
  ELSE getAgentsFromDir(t, <<Head(mods), AgentsDirName>>, Head(mods))
         \o ModuleAgents(t, Tail(mods))

\* for (const moduleName of selectedModules) tasks.push(...getTasksFromDir(...))
RECURSIVE ModuleTasks(_, _)
ModuleTasks(t, mods) ==
  IF Len(mods) = 0 THEN <<>>
  ELSE getTasksFromDir(t, <<Head(mods), TasksDirName>>, Head(mods))
         \o ModuleTasks(t, Tail(mods))

\* the standalone agents beatDir/agents/{dir}/{file}.md, module 'standalone'
StandaloneAgents(t) ==
  LET keep(e) ==
        /\ Len(e.path) = 3
        /\ e.path[1] = AgentsDirName
        /\ EndsWith(Basename(e.path), MdExt)
        /\ ~Includes(Basename(e.path), <<".","c","u","s","t","o","m","i","z","e",".">>)
        /\ ~Includes(e.content, <<"l","o","c","a","l","s","k","i","p","=","\"","t","r","u","e","\"">>)
      files == SelectSeq(t, keep)
  IN [i \in 1..Len(files) |->
        [path |-> beatDir \o files[i].path,
         name |-> StripMd(Basename(files[i].path)),
         module |-> <<"s","t","a","n","d","a","l","o","n","e">>]]

\* getAgentsFromBeat: core, then the selected modules in order, then standalone
getAgentsFromBeat(t, selectedModules) ==
  getAgentsFromDir(t, <<CoreModule, AgentsDirName>>, CoreModule)
    \o ModuleAgents(t, selectedModules)
    \o StandaloneAgents(t)

\* getTasksFromBeat: core, then the selected modules in order
getTasksFromBeat(t, selectedModules) ==
  getTasksFromDir(t, <<CoreModule, TasksDirName>>, CoreModule)
    \o ModuleTasks(t, selectedModules)

\* templates/agent-command-template.md
AgentCommandTemplate ==
  <<"-","-","-","\n","n","a","m","e",":"," ","'","{","{","n","a","m","e","}","}","'","\n","d","e","s","c","r","i","p","t","i","o","n",":"," ","'","{","{","d","e","s","c","r","i","p","t","i","o","n","}","}","'","\n","-","-","-","\n","\n","L","O","A","D"," ","{","b","e","a","t","_","f","o","l","d","e","r","}","/","{","{","m","o","d","u","l","e","}","}","/","a","g","e","n","t","s","/","{","{","n","a","m","e","}","}",".","m","d","\n">>

\* the default of AgentCommandGenerator's beatFolderName
beatFolderName == <<"b","e","a","t">>

\* generateLauncherContent: the template with its variables replaced; the records
\* of getAgentsFromBeat carry no description, so it is '{name} agent'
generateLauncherContent(agent) ==
  ReplaceAll(
    ReplaceAll(
      ReplaceAll(
        ReplaceAll(AgentCommandTemplate, <<"{","{","n","a","m","e","}","}">>, agent.name),
        <<"{","{","m","o","d","u","l","e","}","}">>, agent.module),
      <<"{","{","d","e","s","c","r","i","p","t","i","o","n","}","}">>, agent.name \o <<" ","a","g","e","n","t">>),
    <<"{","b","e","a","t","_","f","o","l","d","e","r","}">>, beatFolderName)

\* collectAgentArtifacts: one launcher artifact per collected agent
collectAgentArtifacts(t, selectedModules) ==
  LET agents == getAgentsFromBeat(t, selectedModules)
  IN [i \in 1..Len(agents) |->
        [type |-> "agent-launcher",
         module |-> agents[i].module,
         name |-> agents[i].name,
         relativePath |->
           PathJoin(<<agents[i].module, AgentsDirName, agents[i].name \o MdExt>>),
         content |-> generateLauncherContent(agents[i]),
         sourcePath |-> agents[i].path]]

\* fs.readFile of a source file given by its absolute path
readFile(t, p) ==
  LET hits == {i \in 1..Len(t) : beatDir \o t[i].path = p}
  IN t[CHOOSE i \in hits : TRUE].content

(***************************************************************************)
(* BaseIdeSetup and the shared generators whose files are not in the       *)
(* source tree: modelled from the specification (sections 4.1 and 6)       *)
(***************************************************************************)

\* BaseIdeSetup.getTasks / getTools / getWorkflows (beatDir, standaloneOnly): the
\* files {module}/{kindDir}/{name}.md of every module, without customization
\* overrides and locally skipped files; standaloneOnly keeps the standalone ones
BaseCollect(t, kindDir, standaloneOnly) ==
  LET keep(e) ==
        /\ Len(e.path) = 3
        /\ e.path[2] = kindDir
        /\ EndsWith(Basename(e.path), MdExt)
        /\ ~Includes(Basename(e.path), <<".","c","u","s","t","o","m","i","z","e",".">>)
        /\ ~Includes(e.content, <<"l","o","c","a","l","s","k","i","p","=","\"","t","r","u","e","\"">>)
        /\ standaloneOnly => Includes(e.content, <<"s","t","a","n","d","a","l","o","n","e","=","\"","t","r","u","e","\"">>)
      files == SelectSeq(t, keep)
  IN [i \in 1..Len(files) |->
        [path |-> beatDir \o files[i].path,
         name |-> StripMd(Basename(files[i].path)),
         module |-> files[i].path[1]]]

\* BaseIdeSetup.processContent(content, metadata): the base processing of a source
\* file's text, which leaves text without placeholders as it is
BaseProcessContent(content) == content

\* BaseIdeSetup.formatTitle
BaseFormatTitle(name) == formatTitle(name)

\* WorkflowCommandGenerator.collectWorkflowArtifacts: one 'workflow-command'
\* artifact per workflow, relativePath {module}/workflows/{name}.md
collectWorkflowArtifacts(t) ==
  LET wfs == BaseCollect(t, WorkflowsDirName, FALSE)
  IN [i \in 1..Len(wfs) |->
        [type |-> "workflow-command",
         module |-> wfs[i].module,
         name |-> wfs[i].name,
         relativePath |-> PathJoin(<<wfs[i].module, WorkflowsDirName, wfs[i].name \o MdExt>>),
         content |-> <<"L","O","A","D"," ","b","e","a","t","/">> \o wfs[i].module \o <<"/","w","o","r","k","f","l","o","w","s","/">> \o wfs[i].name \o <<"\n">>,
         sourcePath |-> wfs[i].path]]

\* TaskToolCommandGenerator.loadTaskManifest / loadToolManifest filtered to the
\* standalone entries: {module, name, standalone} per task or tool
StandaloneManifest(t, kindDir) == BaseCollect(t, kindDir, TRUE)

\* TaskToolCommandGenerator.generateCommandContent(item, type)
generateCommandContent(item, typeName) ==
  <<"#"," ">>  \o item.name \o <<"\n","\n","L","O","A","D"," ","b","e","a","t","/">> \o item.module \o <<"/">> \o typeName \o <<"s","/">>
        \o item.name \o <<".","m","d","\n">>

\* for (const entry of entries) await fs.remove(entry): the entries are distinct
\* siblings, so the order of the removals does not matter
RunRemoveAll(r, paths) ==
  IF r.err \/ paths = {} THEN r
  ELSE IF \E p \in paths : ~CanRemove(r.fs, p) THEN Thrown(r, "removeFailed")
  ELSE [Logged(r, "remove") EXCEPT !.fs =
          [q \in {x \in DOMAIN r.fs : \A p \in paths : ~IsUnder(x, p)} |-> r.fs[q]]]

\* what a handler records for a file it writes: the path, the content and the
\* artifact (module, kind, name) it renders
Out(path, content, module, kind, name) ==
  [path |-> path, content |-> content, module |-> module, kind |-> kind, name |-> name]

(***************************************************************************)
(* TraeSetup (trae.js)                                                     *)
(***************************************************************************)

\* path.join(projectDir, '.trae', 'rules')
TraeRulesDir == projectDir \o <<<<".","t","r","a","e">>, <<"r","u","l","e","s">>>>

\* the test with the hyphen of the marker forgotten: startsWith('beat')
IsBeatMdFile_noHyphen(file) == StartsWith(file, <<"b","e","a","t">>) /\ EndsWith(file, MdExt)

\* the test of cleanup's loop: file.startsWith('beat-') && file.endsWith('.md')
IsBeatMdFile(file) == StartsWith(file, BeatPrefix) /\ EndsWith(file, MdExt)

\* the cleanup loop of TraeSetup and OpenCodeSetup over one directory
RemoveBeatMdFiles(r, dir) ==
  IF ~r.err /\ pathExists(r.fs, dir)
  THEN RunRemoveAll(r, {dir \o <<file>> : file \in {x \in readdir(r.fs, dir) : IsBeatMdFile(x)}})
  ELSE r

\* TraeSetup.cleanup
TraeSetup_cleanup(r) == RemoveBeatMdFiles(r, TraeRulesDir)

\* path.relative(projectDir, artifact.sourcePath).replaceAll('\\', '/')
RelativeToProject(p) == PathJoin(SubSeq(p, Len(projectDir) + 1, Len(p)))

\* TraeSetup.createAgentRule
Trae_createAgentRule(artifact) ==
  LET m     == MatchDescriptionField(artifact.content)
      title == IF m # <<>> THEN m[1] ELSE formatTitle(artifact.name)
  IN <<"#"," ">> \o title \o <<" ","A","g","e","n","t"," ","R","u","l","e","\n","\n","T","h","i","s"," ","r","u","l","e"," ","i","s"," ","t","r","i","g","g","e","r","e","d"," ","w","h","e","n"," ","t","h","e"," ","u","s","e","r"," ","t","y","p","e","s"," ",Backtick,"@">>
       \o artifact.name \o <<Backtick," ","a","n","d"," ","a","c","t","i","v","a","t","e","s"," ","t","h","e"," ">> \o title
       \o <<" ","a","g","e","n","t"," ","p","e","r","s","o","n","a",".","\n","\n","#","#"," ","A","g","e","n","t"," ","A","c","t","i","v","a","t","i","o","n","\n","\n">>
       \o Trim(StripFrontmatter(artifact.content))
       \o <<"\n","\n","#","#"," ","F","i","l","e"," ","R","e","f","e","r","e","n","c","e","\n","\n","T","h","e"," ","f","u","l","l"," ","a","g","e","n","t"," ","d","e","f","i","n","i","t","i","o","n"," ","i","s"," ","l","o","c","a","t","e","d"," ","a","t",":"," ",Backtick>>
       \o RelativeToProject(artifact.sourcePath) \o <<Backtick,"\n">>

\* the title TraeSetup.createTaskRule and createToolRule give a task or tool
Trae_itemTitle(item, content) ==
  LET m == MatchNameAttr(content)
  IN IF m # <<>> THEN m[1] ELSE formatTitle(item.name)

\* TraeSetup.createTaskRule
Trae_createTaskRule(task, content) ==
  LET taskName == Trae_itemTitle(task, content)
  IN <<"#"," ">> \o taskName \o <<" ","T","a","s","k"," ","R","u","l","e","\n","\n","T","h","i","s"," ","r","u","l","e"," ","d","e","f","i","n","e","s"," ","t","h","e"," ">> \o taskName
       \o <<" ","t","a","s","k"," ","w","o","r","k","f","l","o","w",".","\n","\n","#","#"," ","T","a","s","k"," ","D","e","f","i","n","i","t","i","o","n","\n","\n","W","h","e","n"," ","t","h","i","s"," ","t","a","s","k"," ","i","s"," ","t","r","i","g","g","e","r","e","d",","," ","e","x","e","c","u","t","e"," ","t","h","e"," ","f","o","l","l","o","w","i","n","g"," ","w","o","r","k","f","l","o","w",":","\n","\n">>
       \o content \o <<"\n","\n","#","#"," ","U","s","a","g","e","\n","\n","R","e","f","e","r","e","n","c","e"," ","t","h","i","s"," ","t","a","s","k"," ","w","i","t","h"," ",Backtick,"@","t","a","s","k","-">> \o task.name
       \o <<Backtick," ","t","o"," ","e","x","e","c","u","t","e"," ","t","h","e"," ","d","e","f","i","n","e","d"," ","w","o","r","k","f","l","o","w",".","\n","\n","#","#"," ","M","o","d","u","l","e","\n","\n","P","a","r","t"," ","o","f"," ","t","h","e"," ","B","E","A","T"," ">>
       \o ToUpperCase(task.module) \o <<" ","m","o","d","u","l","e",".","\n">>

\* TraeSetup.createToolRule
Trae_createToolRule(tool, content) ==
  LET toolName == Trae_itemTitle(tool, content)
  IN <<"#"," ">> \o toolName \o <<" ","T","o","o","l"," ","R","u","l","e","\n","\n","T","h","i","s"," ","r","u","l","e"," ","d","e","f","i","n","e","s"," ","t","h","e"," ">> \o toolName
       \o <<" ","t","o","o","l",".","\n","\n","#","#"," ","T","o","o","l"," ","D","e","f","i","n","i","t","i","o","n","\n","\n","W","h","e","n"," ","t","h","i","s"," ","t","o","o","l"," ","i","s"," ","t","r","i","g","g","e","r","e","d",","," ","e","x","e","c","u","t","e"," ","t","h","e"," ","f","o","l","l","o","w","i","n","g",":","\n","\n">>
       \o content \o <<"\n","\n","#","#"," ","U","s","a","g","e","\n","\n","R","e","f","e","r","e","n","c","e"," ","t","h","i","s"," ","t","o","o","l"," ","w","i","t","h"," ",Backtick,"@","t","o","o","l","-">> \o tool.name
       \o <<Backtick," ","t","o"," ","e","x","e","c","u","t","e"," ","i","t",".","\n","\n","#","#"," ","M","o","d","u","l","e","\n","\n","P","a","r","t"," ","o","f"," ","t","h","e"," ","B","E","A","T"," ">>
       \o ToUpperCase(tool.module) \o <<" ","m","o","d","u","l","e",".","\n">>

\* TraeSetup.createWorkflowRule (the collected workflows carry no description)
Trae_createWorkflowRule(workflow, content) ==
  <<"#"," ">> \o workflow.name \o <<" ","W","o","r","k","f","l","o","w"," ","R","u","l","e","\n","\n","T","h","i","s"," ","r","u","l","e"," ","d","e","f","i","n","e","s"," ","t","h","e"," ">> \o workflow.name
    \o <<" ","w","o","r","k","f","l","o","w",".","\n","\n","#","#"," ","W","o","r","k","f","l","o","w"," ","D","e","s","c","r","i","p","t","i","o","n","\n","\n","N","o"," ","d","e","s","c","r","i","p","t","i","o","n"," ","p","r","o","v","i","d","e","d","\n","\n","#","#"," ","W","o","r","k","f","l","o","w"," ","D","e","f","i","n","i","t","i","o","n","\n","\n">>
    \o content \o <<"\n","\n","#","#"," ","U","s","a","g","e","\n","\n","R","e","f","e","r","e","n","c","e"," ","t","h","i","s"," ","w","o","r","k","f","l","o","w"," ","w","i","t","h"," ",Backtick,"@","w","o","r","k","f","l","o","w","-">> \o workflow.name
    \o <<Backtick," ","t","o"," ","e","x","e","c","u","t","e"," ","t","h","e"," ","g","u","i","d","e","d"," ","w","o","r","k","f","l","o","w",".","\n","\n","#","#"," ","M","o","d","u","l","e","\n","\n","P","a","r","t"," ","o","f"," ","t","h","e"," ","B","E","A","T"," ">>
    \o ToUpperCase(workflow.module) \o <<" ","m","o","d","u","l","e",".","\n">>

\* the rule file name with module and kind exchanged: `beat-${module}-${kind}-${name}.md`
Trae_ruleFile_moduleFirst(kind, module, name) ==
  BeatPrefix \o module \o <<"-">> \o kind \o <<"-">> \o name \o MdExt

\* the rule file name `beat-${kind}-${module}-${name}.md`
Trae_ruleFile(kind, module, name) ==
  BeatPrefix \o kind \o <<"-">> \o module \o <<"-">> \o name \o MdExt

\* the files TraeSetup.setup writes, in order: agents, tasks, tools, workflows
Trae_outs(t, sel) ==
  LET agents    == collectAgentArtifacts(t, sel)
      tasks     == BaseCollect(t, TasksDirName, TRUE)
      tools     == BaseCollect(t, ToolsDirName, TRUE)
      workflows == BaseCollect(t, WorkflowsDirName, TRUE)
  IN [i \in 1..Len(agents) |->
        Out(TraeRulesDir \o <<Trae_ruleFile(<<"a","g","e","n","t">>, agents[i].module, agents[i].name)>>,
            Trae_createAgentRule(agents[i]), agents[i].module, "agent", agents[i].name)]
     \o [i \in 1..Len(tasks) |->
        Out(TraeRulesDir \o <<Trae_ruleFile(<<"t","a","s","k">>, tasks[i].module, tasks[i].name)>>,
            Trae_createTaskRule(tasks[i], readFile(t, tasks[i].path)),
            tasks[i].module, "task", tasks[i].name)]
     \o [i \in 1..Len(tools) |->
        Out(TraeRulesDir \o <<Trae_ruleFile(<<"t","o","o","l">>, tools[i].module, tools[i].name)>>,
            Trae_createToolRule(tools[i], readFile(t, tools[i].path)),
            tools[i].module, "tool", tools[i].name)]
     \o [i \in 1..Len(workflows) |->
        Out(TraeRulesDir \o <<Trae_ruleFile(<<"w","o","r","k","f","l","o","w">>, workflows[i].module, workflows[i].name)>>,
            Trae_createWorkflowRule(workflows[i], readFile(t, workflows[i].path)),
            workflows[i].module, "workflow", workflows[i].name)]

\* TraeSetup.setup: ensureDir, cleanup, collect, write
TraeSetup_setup(f, t, sel) ==
  BaseWriteAll(
    RunCollect(TraeSetup_cleanup(BaseEnsureDir(NewRun(f), TraeRulesDir))),
    Trae_outs(t, sel))

(***************************************************************************)
(* OpenCodeSetup (trae.js, second half)                                    *)
(***************************************************************************)

\* path.join(projectDir, '.opencode', 'agent')
OpenCodeAgentsDir == projectDir \o <<<<".","o","p","e","n","c","o","d","e">>, <<"a","g","e","n","t">>>>

\* path.join(projectDir, '.opencode', 'command')
OpenCodeCommandsDir == projectDir \o <<<<".","o","p","e","n","c","o","d","e">>, <<"c","o","m","m","a","n","d">>>>

\* OpenCodeSetup.cleanup: the agent folder, then the command folder
OpenCodeSetup_cleanup(r) ==
  RemoveBeatMdFiles(RemoveBeatMdFiles(r, OpenCodeAgentsDir), OpenCodeCommandsDir)

\* the files OpenCodeSetup.setup writes: agents, workflow commands, then the
\* standalone tasks and tools of generateFlatTaskToolCommands
OpenCode_outs(t, sel) ==
  LET agents    == collectAgentArtifacts(t, sel)
      workflows == SelectSeq(collectWorkflowArtifacts(t),
                             LAMBDA a : a.type = "workflow-command")
      tasks     == StandaloneManifest(t, TasksDirName)
      tools     == StandaloneManifest(t, ToolsDirName)
  IN [i \in 1..Len(agents) |->
        Out(OpenCodeAgentsDir \o <<Trae_ruleFile(<<"a","g","e","n","t">>, agents[i].module, agents[i].name)>>,
            agents[i].content, agents[i].module, "agent", agents[i].name)]
     \o [i \in 1..Len(workflows) |->
        Out(OpenCodeCommandsDir
              \o <<Trae_ruleFile(<<"w","o","r","k","f","l","o","w">>, workflows[i].module, workflows[i].name)>>,
            workflows[i].content, workflows[i].module, "workflow", workflows[i].name)]
     \o [i \in 1..Len(tasks) |->
        Out(OpenCodeCommandsDir \o <<Trae_ruleFile(<<"t","a","s","k">>, tasks[i].module, tasks[i].name)>>,
            generateCommandContent(tasks[i], <<"t","a","s","k">>), tasks[i].module, "task", tasks[i].name)]
     \o [i \in 1..Len(tools) |->
        Out(OpenCodeCommandsDir \o <<Trae_ruleFile(<<"t","o","o","l">>, tools[i].module, tools[i].name)>>,
            generateCommandContent(tools[i], <<"t","o","o","l">>), tools[i].module, "tool", tools[i].name)]

\* OpenCodeSetup.setup: ensureDir of both folders, cleanup, collect, write
OpenCodeSetup_setup(f, t, sel) ==
  BaseWriteAll(
    RunCollect(
      OpenCodeSetup_cleanup(
        BaseEnsureDir(BaseEnsureDir(NewRun(f), OpenCodeCommandsDir), OpenCodeAgentsDir))),
    OpenCode_outs(t, sel))

(***************************************************************************)
(* CodexSetup (codex.js) and ClineSetup (cline.js)                         *)
(***************************************************************************)

\* CodexSetup.getCodexPromptDir: path.join(os.homedir(), '.codex', 'prompts')
getCodexPromptDir == homeDir \o <<<<".","c","o","d","e","x">>, <<"p","r","o","m","p","t","s">>>>

\* detect that looks for the prompt directory only
CodexSetup_detect_dirOnly(f) == pathExists(f, getCodexPromptDir)

\* CodexSetup.detect: the prompt directory exists and holds an entry 'beat-...'
CodexSetup_detect(f) ==
  /\ pathExists(f, getCodexPromptDir)
  /\ \E entry \in readdir(f, getCodexPromptDir) : StartsWith(entry, BeatPrefix)

\* Cline's workflows kept in the directory of Trae's rules
ClineWorkflowsDir_inTraeRules == TraeRulesDir

\* path.join(projectDir, '.clinerules', 'workflows')
ClineWorkflowsDir == projectDir \o <<<<".","c","l","i","n","e","r","u","l","e","s">>, <<"w","o","r","k","f","l","o","w","s">>>>

\* flattenFilename with replace for replaceAll: only the first separator becomes '-'
flattenFilename_firstOnly(relativePath) ==
  BeatPrefix \o ReplaceFirst(relativePath, <<"/">>, <<"-">>)

\* flattenFilename: relativePath.replaceAll(/[\\/]/g, '-') behind 'beat-'
flattenFilename(relativePath) ==
  BeatPrefix \o ReplaceAll(ReplaceAll(relativePath, <<"/">>, <<"-">>), <<"\\">>, <<"-">>)

\* ClineSetup.detect: the workflows directory exists and holds an entry 'beat-...'
ClineSetup_detect(f) ==
  /\ pathExists(f, ClineWorkflowsDir)
  /\ \E entry \in readdir(f, ClineWorkflowsDir) : StartsWith(entry, BeatPrefix)

\* the entries with the directories skipped: only stat.isFile() is removed
BeatEntries_filesOnly(f, destDir) ==
  {destDir \o <<entry>> : entry \in
     {x \in readdir(f, destDir) :
        StartsWith(x, BeatPrefix) /\ f[destDir \o <<x>>].type = "file"}}

\* the entries clearOldBeatFiles removes: those whose name starts with 'beat-' and
\* that stat reports as a file or a directory
BeatEntries(f, destDir) ==
  {destDir \o <<entry>> : entry \in
     {x \in readdir(f, destDir) :
        /\ StartsWith(x, BeatPrefix)
        /\ f[destDir \o <<x>>].type \in {"file", "dir"}}}

\* clearOldBeatFiles (the same code in both classes)
clearOldBeatFiles(r, destDir) ==
  IF ~r.err /\ pathExists(r.fs, destDir)
  THEN RunRemoveAll(r, BeatEntries(r.fs, destDir))
  ELSE r

\* collectClaudeArtifacts / collectClineArtifacts: agent launchers, the tasks of
\* core and the selected modules, then the workflow artifacts
collectFlatArtifacts(t, sel) ==
  LET agents == collectAgentArtifacts(t, sel)
      tasks  == getTasksFromBeat(t, sel)
      wfs    == collectWorkflowArtifacts(t)
  IN [i \in 1..Len(agents) |->
        [type |-> "agent", module |-> agents[i].module, name |-> agents[i].name,
         relativePath |-> agents[i].relativePath, content |-> agents[i].content]]
     \o [i \in 1..Len(tasks) |->
        [type |-> "task", module |-> tasks[i].module, name |-> tasks[i].name,
         relativePath |-> PathJoin(<<tasks[i].module, TasksDirName, tasks[i].name \o MdExt>>),
         content |-> BaseProcessContent(readFile(t, tasks[i].path))]]
     \o [i \in 1..Len(wfs) |->
        [type |-> "workflow", module |-> wfs[i].module, name |-> wfs[i].name,
         relativePath |-> wfs[i].relativePath, content |-> wfs[i].content]]

\* for (const artifact of artifacts) await fs.writeFile(path.join(destDir,
\* flattenFilename(artifact.relativePath)), artifact.content)
RECURSIVE flattenAndWriteArtifacts(_, _, _)
flattenAndWriteArtifacts(r, artifacts, destDir) ==
  IF Len(artifacts) = 0 THEN r
  ELSE LET a == Head(artifacts)
       IN flattenAndWriteArtifacts(
            RunWriteFile(r, Out(destDir \o <<flattenFilename(a.relativePath)>>,
                                a.content, a.module, a.type, a.name)),
            Tail(artifacts), destDir)

\* the content of a source file the process may not read: fs.readFile throws EACCES
Unreadable == <<"EACCES">>

\* collectClaudeArtifacts / collectClineArtifacts as a step of setup: the read of
\* a task file (readAndProcessWithProject) throws when the file is unreadable,
\* and nothing catches it
RunCollectTasks(r, t, sel) ==
  IF r.err THEN r
  ELSE LET tasks == getTasksFromBeat(t, sel)
       IN IF \E i \in 1..Len(tasks) : readFile(t, tasks[i].path) = Unreadable
          THEN Thrown(r, "collectFailed")
          ELSE Logged(r, "collect")

\* setup in the order of ClineSetup: ensureDir, clearOldBeatFiles, collect, write
CodexSetup_setup_clearFirst(f, t, sel) ==
  flattenAndWriteArtifacts(
    RunCollectTasks(clearOldBeatFiles(RunEnsureDir(NewRun(f), getCodexPromptDir),
                                      getCodexPromptDir), t, sel),
    collectFlatArtifacts(t, sel), getCodexPromptDir)

\* CodexSetup.setup: collect, ensureDir, clearOldBeatFiles, write
CodexSetup_setup(f, t, sel) ==
  flattenAndWriteArtifacts(
    clearOldBeatFiles(RunEnsureDir(RunCollectTasks(NewRun(f), t, sel), getCodexPromptDir),
                      getCodexPromptDir),
    collectFlatArtifacts(t, sel), getCodexPromptDir)

\* CodexSetup.cleanup
CodexSetup_cleanup(r) == clearOldBeatFiles(r, getCodexPromptDir)

\* ClineSetup.setup: ensureDir, clearOldBeatFiles, collect, write
ClineSetup_setup(f, t, sel) ==
  flattenAndWriteArtifacts(
    RunCollectTasks(clearOldBeatFiles(RunEnsureDir(NewRun(f), ClineWorkflowsDir),
                                      ClineWorkflowsDir), t, sel),
    collectFlatArtifacts(t, sel), ClineWorkflowsDir)

\* ClineSetup.cleanup
ClineSetup_cleanup(r) == clearOldBeatFiles(r, ClineWorkflowsDir)

(***************************************************************************)
(* WindsurfSetup (windsurf.js)                                             *)
(***************************************************************************)

\* the distinct modules of the collected items, in order of first appearance
\* (the insertion order of the Set that setup fills)
RECURSIVE ModulesOf(_)
ModulesOf(items) ==
  IF Len(items) = 0 THEN <<>>
  ELSE LET rest == ModulesOf(SubSeq(items, 1, Len(items) - 1))
           m    == items[Len(items)].module
       IN IF \E i \in 1..Len(rest) : rest[i] = m THEN rest ELSE Append(rest, m)

\* for (const module of modules): ensureDir of the module directory and of its
\* agents, tasks, tools and workflows directories
RECURSIVE EnsureModuleDirs(_, _, _)
EnsureModuleDirs(r, root, mods) ==
  IF Len(mods) = 0 THEN r
  ELSE EnsureModuleDirs(
         EnsureAll(r, <<root \o <<Head(mods)>>,
                        root \o <<Head(mods), AgentsDirName>>,
                        root \o <<Head(mods), TasksDirName>>,
                        root \o <<Head(mods), ToolsDirName>>,
                        root \o <<Head(mods), WorkflowsDirName>>>>),
         root, Tail(mods))

\* remove the directory when it exists (the cleanup of the adapters that own a
\* 'beat' subdirectory)
RemoveIfExists(r, p) ==
  IF ~r.err /\ pathExists(r.fs, p) THEN RunRemove(r, p) ELSE r

\* path.join(projectDir, '.windsurf', 'workflows', 'beat')
WindsurfBeatDir == projectDir \o <<<<".","w","i","n","d","s","u","r","f">>, <<"w","o","r","k","f","l","o","w","s">>, <<"b","e","a","t">>>>

\* WindsurfSetup.cleanup
WindsurfSetup_cleanup(r) == RemoveIfExists(r, WindsurfBeatDir)

\* the Windsurf frontmatter in front of a body
Windsurf_frontmatter(description, mode, body) ==
  <<"-","-","-","\n","d","e","s","c","r","i","p","t","i","o","n",":"," ">> \o description \o <<"\n","a","u","t","o","_","e","x","e","c","u","t","i","o","n","_","m","o","d","e",":"," ">> \o mode
    \o <<"\n","-","-","-","\n","\n">> \o body

\* WindsurfSetup.createWorkflowContent (agents)
Windsurf_createWorkflowContent(agent, content) ==
  Windsurf_frontmatter(agent.name, <<"3">>, StripFrontmatter(content))

\* WindsurfSetup.createTaskWorkflowContent
Windsurf_createTaskWorkflowContent(task, content) ==
  Windsurf_frontmatter(<<"t","a","s","k","-">> \o task.name, <<"2">>, content)

\* WindsurfSetup.createToolWorkflowContent
Windsurf_createToolWorkflowContent(tool, content) ==
  Windsurf_frontmatter(<<"t","o","o","l","-">> \o tool.name, <<"2">>, content)

\* WindsurfSetup.createWorkflowWorkflowContent
Windsurf_createWorkflowWorkflowContent(workflow, content) ==
  Windsurf_frontmatter(workflow.name, <<"1">>, content)

\* the nested target path {root}/{module}/{kindDir}/{name}{ext}
NestedPath(root, module, kindDir, name, ext) == root \o <<module, kindDir, name \o ext>>

\* the files WindsurfSetup.setup writes
Windsurf_outs(t, sel) ==
  LET agents    == collectAgentArtifacts(t, sel)
      tasks     == BaseCollect(t, TasksDirName, TRUE)
      tools     == BaseCollect(t, ToolsDirName, TRUE)
      workflows == BaseCollect(t, WorkflowsDirName, TRUE)
  IN [i \in 1..Len(agents) |->
        Out(NestedPath(WindsurfBeatDir, agents[i].module, AgentsDirName, agents[i].name, MdExt),
            Windsurf_createWorkflowContent(agents[i], agents[i].content),
            agents[i].module, "agent", agents[i].name)]
     \o [i \in 1..Len(tasks) |->
        Out(NestedPath(WindsurfBeatDir, tasks[i].module, TasksDirName, tasks[i].name, MdExt),
            Windsurf_createTaskWorkflowContent(tasks[i], readFile(t, tasks[i].path)),
            tasks[i].module, "task", tasks[i].name)]
     \o [i \in 1..Len(tools) |->
        Out(NestedPath(WindsurfBeatDir, tools[i].module, ToolsDirName, tools[i].name, MdExt),
            Windsurf_createToolWorkflowContent(tools[i], readFile(t, tools[i].path)),
            tools[i].module, "tool", tools[i].name)]
     \o [i \in 1..Len(workflows) |->
        Out(NestedPath(WindsurfBeatDir, workflows[i].module, WorkflowsDirName,
                       workflows[i].name, MdExt),
            Windsurf_createWorkflowWorkflowContent(workflows[i], readFile(t, workflows[i].path)),
            workflows[i].module, "workflow", workflows[i].name)]

\* WindsurfSetup.setup: ensureDir, cleanup, collect, module directories, write
WindsurfSetup_setup(f, t, sel) ==
  LET outs == Windsurf_outs(t, sel)
  IN BaseWriteAll(
       EnsureModuleDirs(
         RunCollect(WindsurfSetup_cleanup(BaseEnsureDir(NewRun(f), WindsurfBeatDir))),
         WindsurfBeatDir, ModulesOf(outs)),
       outs)

(***************************************************************************)
(* CursorSetup (cursor.js)                                                 *)
(***************************************************************************)

\* path.join(projectDir, '.cursor', 'rules', 'beat')
CursorBeatRulesDir == projectDir \o <<<<".","c","u","r","s","o","r">>, <<"r","u","l","e","s">>, <<"b","e","a","t">>>>

\* the extension of Cursor's rule files
MdcExt == <<".","m","d","c">>

\* the cleanup removing the whole of .cursor/rules
CursorSetup_cleanup_allRules(r) == RemoveIfExists(r, Dirname(CursorBeatRulesDir))

\* CursorSetup.cleanup
CursorSetup_cleanup(r) == RemoveIfExists(r, CursorBeatRulesDir)

\* the description CursorSetup.processContent derives (cursor.js 275-307): the
\* kind by the first probe that matches, the title from the attribute or else
\* metadata.name as it is
Cursor_description(content, metadata) ==
  LET t == MatchTitleAttr(content)
      n == MatchNameAttr(content)
      M == ToUpperCase(metadata.module)
  IN IF Includes(content, <<"<","a","g","e","n","t">>)
       THEN <<"B","E","A","T"," ">> \o M \o <<" ","A","g","e","n","t",":"," ">> \o (IF t # <<>> THEN t[1] ELSE metadata.name)
     ELSE IF Includes(content, <<"<","t","a","s","k">>)
       THEN <<"B","E","A","T"," ">> \o M \o <<" ","T","a","s","k",":"," ">> \o (IF n # <<>> THEN n[1] ELSE metadata.name)
     ELSE IF Includes(content, <<"<","t","o","o","l">>)
       THEN <<"B","E","A","T"," ">> \o M \o <<" ","T","o","o","l",":"," ">> \o (IF n # <<>> THEN n[1] ELSE metadata.name)
     ELSE IF Includes(content, <<"w","o","r","k","f","l","o","w",":">>) \/ Includes(content, <<"n","a","m","e",":">>)
       THEN <<"B","E","A","T"," ">> \o M \o <<" ","W","o","r","k","f","l","o","w",":"," ">> \o metadata.name
     ELSE <<"B","E","A","T"," ">> \o M \o <<":"," ">> \o metadata.name

\* CursorSetup.processContent: the MDC header in front of the processed content
\* without its own frontmatter
Cursor_processContent(content, metadata) ==
  <<"-","-","-","\n","d","e","s","c","r","i","p","t","i","o","n",":"," ">> \o Cursor_description(content, metadata)
    \o <<"\n","g","l","o","b","s",":"," ","\n","a","l","w","a","y","s","A","p","p","l","y",":"," ","f","a","l","s","e","\n","-","-","-","\n","\n">>
    \o StripFrontmatter(BaseProcessContent(content))

\* CursorSetup.wrapLauncherWithMDC
Cursor_wrapLauncherWithMDC(launcherContent, metadata) ==
  LET m    == MatchNameField(launcherContent)
      name == IF m # <<>> THEN m[1] ELSE metadata.name
  IN <<"-","-","-","\n","d","e","s","c","r","i","p","t","i","o","n",":"," ","B","E","A","T"," ">> \o ToUpperCase(metadata.module) \o <<" ","A","g","e","n","t",":"," ">> \o name
       \o <<"\n","g","l","o","b","s",":","\n","a","l","w","a","y","s","A","p","p","l","y",":"," ","f","a","l","s","e","\n","-","-","-","\n","\n">> \o StripFrontmatter(launcherContent)

\* the lines of createBEATIndex for the items of one kind in one module
RECURSIVE Cursor_indexLines(_, _, _)
Cursor_indexLines(module, kindDir, items) ==
  IF Len(items) = 0 THEN <<>>
  ELSE (IF Head(items).module = module
        THEN <<"-"," ","@","b","e","a","t","/">> \o module \o <<"/">> \o kindDir \o <<"/">> \o Head(items).name
               \o <<" ","-"," ">> \o Head(items).name \o <<"\n">>
        ELSE <<>>)
       \o Cursor_indexLines(module, kindDir, Tail(items))

\* one kind's block of a module's section in the index: heading, lines, blank line
Cursor_indexBlock(heading, module, kindDir, items) ==
  LET lines == Cursor_indexLines(module, kindDir, items)
  IN IF lines = <<>> THEN <<>> ELSE heading \o lines \o <<"\n">>

\* the sections of the index, one per module
RECURSIVE Cursor_indexModules(_, _, _, _, _)
Cursor_indexModules(mods, agents, tasks, tools, workflows) ==
  IF Len(mods) = 0 THEN <<>>
  ELSE <<"#","#","#"," ">> \o ToUpperCase(Head(mods)) \o <<"\n","\n">>
       \o Cursor_indexBlock(<<"*","*","A","g","e","n","t","s",":","*","*","\n">>, Head(mods), AgentsDirName, agents)
       \o Cursor_indexBlock(<<"*","*","T","a","s","k","s",":","*","*","\n">>, Head(mods), TasksDirName, tasks)
       \o Cursor_indexBlock(<<"*","*","T","o","o","l","s",":","*","*","\n">>, Head(mods), ToolsDirName, tools)
       \o Cursor_indexBlock(<<"*","*","W","o","r","k","f","l","o","w","s",":","*","*","\n">>, Head(mods), WorkflowsDirName, workflows)
       \o Cursor_indexModules(Tail(mods), agents, tasks, tools, workflows)

\* the content createBEATIndex writes to index.mdc
Cursor_indexContent(agents, tasks, tools, workflows, mods) ==
  <<"-","-","-","\n","d","e","s","c","r","i","p","t","i","o","n",":"," ","B","E","A","T"," ","M","e","t","h","o","d"," ","-"," ","M","a","s","t","e","r"," ","I","n","d","e","x","\n","g","l","o","b","s",":","\n","a","l","w","a","y","s","A","p","p","l","y",":"," ","t","r","u","e","\n","-","-","-","\n","\n","#"," ","B","E","A","T"," ","M","e","t","h","o","d"," ","-"," ","C","u","r","s","o","r"," ","R","u","l","e","s"," ","I","n","d","e","x","\n","\n","T","h","i","s"," ","i","s"," ","t","h","e"," ","m","a","s","t","e","r"," ","i","n","d","e","x"," ","f","o","r"," ","a","l","l"," ","B","E","A","T"," ","a","g","e","n","t","s",","," ","t","a","s","k","s",","," ","t","o","o","l","s",","," ","a","n","d"," ","w","o","r","k","f","l","o","w","s"," ","a","v","a","i","l","a","b","l","e"," ","i","n"," ","y","o","u","r"," ","p","r","o","j","e","c","t",".","\n","\n","#","#"," ","I","n","s","t","a","l","l","a","t","i","o","n"," ","C","o","m","p","l","e","t","e","!","\n","\n","B","E","A","T"," ","r","u","l","e","s"," ","h","a","v","e"," ","b","e","e","n"," ","i","n","s","t","a","l","l","e","d"," ","t","o",":"," ",Backtick,".","c","u","r","s","o","r","/","r","u","l","e","s","/","b","e","a","t","/",Backtick,"\n","\n","*","*","N","o","t","e",":","*","*"," ","B","E","A","T"," ","d","o","e","s"," ","n","o","t"," ","m","o","d","i","f","y"," ","y","o","u","r"," ",Backtick,".","c","u","r","s","o","r","r","u","l","e","s",Backtick," ","f","i","l","e","."," ","Y","o","u"," ","m","a","n","a","g","e"," ","t","h","a","t"," ","s","e","p","a","r","a","t","e","l","y",".","\n","\n","#","#"," ","H","o","w"," ","t","o"," ","U","s","e","\n","\n","-"," ","R","e","f","e","r","e","n","c","e"," ","s","p","e","c","i","f","i","c"," ","a","g","e","n","t","s",":"," ","@","b","e","a","t","/","{","m","o","d","u","l","e","}","/","a","g","e","n","t","s","/","{","a","g","e","n","t","-","n","a","m","e","}","\n","-"," ","R","e","f","e","r","e","n","c","e"," ","s","p","e","c","i","f","i","c"," ","t","a","s","k","s",":"," ","@","b","e","a","t","/","{","m","o","d","u","l","e","}","/","t","a","s","k","s","/","{","t","a","s","k","-","n","a","m","e","}","\n","-"," ","R","e","f","e","r","e","n","c","e"," ","s","p","e","c","i","f","i","c"," ","t","o","o","l","s",":"," ","@","b","e","a","t","/","{","m","o","d","u","l","e","}","/","t","o","o","l","s","/","{","t","o","o","l","-","n","a","m","e","}","\n","-"," ","R","e","f","e","r","e","n","c","e"," ","s","p","e","c","i","f","i","c"," ","w","o","r","k","f","l","o","w","s",":"," ","@","b","e","a","t","/","{","m","o","d","u","l","e","}","/","w","o","r","k","f","l","o","w","s","/","{","w","o","r","k","f","l","o","w","-","n","a","m","e","}","\n","-"," ","R","e","f","e","r","e","n","c","e"," ","e","n","t","i","r","e"," ","m","o","d","u","l","e","s",":"," ","@","b","e","a","t","/","{","m","o","d","u","l","e","}","\n","-"," ","R","e","f","e","r","e","n","c","e"," ","t","h","i","s"," ","i","n","d","e","x",":"," ","@","b","e","a","t","/","i","n","d","e","x","\n","\n","#","#"," ","A","v","a","i","l","a","b","l","e"," ","M","o","d","u","l","e","s","\n","\n">>
    \o Cursor_indexModules(mods, agents, tasks, tools, workflows)
    \o <<"\n","#","#"," ","Q","u","i","c","k"," ","R","e","f","e","r","e","n","c","e","\n","\n","-"," ","A","l","l"," ","B","E","A","T"," ","r","u","l","e","s"," ","a","r","e"," ","M","a","n","u","a","l"," ","t","y","p","e"," ","-"," ","r","e","f","e","r","e","n","c","e"," ","t","h","e","m"," ","e","x","p","l","i","c","i","t","l","y"," ","w","h","e","n"," ","n","e","e","d","e","d","\n","-"," ","A","g","e","n","t","s"," ","p","r","o","v","i","d","e"," ","p","e","r","s","o","n","a","-","b","a","s","e","d"," ","a","s","s","i","s","t","a","n","c","e"," ","w","i","t","h"," ","s","p","e","c","i","f","i","c"," ","e","x","p","e","r","t","i","s","e","\n","-"," ","T","a","s","k","s"," ","a","r","e"," ","r","e","u","s","a","b","l","e"," ","w","o","r","k","f","l","o","w","s"," ","f","o","r"," ","c","o","m","m","o","n"," ","o","p","e","r","a","t","i","o","n","s","\n","-"," ","T","o","o","l","s"," ","p","r","o","v","i","d","e"," ","s","p","e","c","i","a","l","i","z","e","d"," ","f","u","n","c","t","i","o","n","a","l","i","t","y","\n","-"," ","W","o","r","k","f","l","o","w","s"," ","o","r","c","h","e","s","t","r","a","t","e"," ","m","u","l","t","i","-","s","t","e","p"," ","p","r","o","c","e","s","s","e","s","\n","-"," ","E","a","c","h"," ","a","g","e","n","t"," ","i","n","c","l","u","d","e","s"," ","a","n"," ","a","c","t","i","v","a","t","i","o","n"," ","b","l","o","c","k"," ","f","o","r"," ","p","r","o","p","e","r"," ","i","n","i","t","i","a","l","i","z","a","t","i","o","n","\n","\n","#","#"," ","C","o","n","f","i","g","u","r","a","t","i","o","n","\n","\n","B","E","A","T"," ","r","u","l","e","s"," ","a","r","e"," ","c","o","n","f","i","g","u","r","e","d"," ","a","s"," ","M","a","n","u","a","l"," ","r","u","l","e","s"," ","(","a","l","w","a","y","s","A","p","p","l","y",":"," ","f","a","l","s","e",")"," ","t","o"," ","g","i","v","e"," ","y","o","u"," ","c","o","n","t","r","o","l","\n","o","v","e","r"," ","w","h","e","n"," ","t","h","e","y","'","r","e"," ","i","n","c","l","u","d","e","d"," ","i","n"," ","y","o","u","r"," ","c","o","n","t","e","x","t","."," ","R","e","f","e","r","e","n","c","e"," ","t","h","e","m"," ","e","x","p","l","i","c","i","t","l","y"," ","w","h","e","n"," ","y","o","u"," ","n","e","e","d","\n","s","p","e","c","i","f","i","c"," ","a","g","e","n","t"," ","e","x","p","e","r","t","i","s","e",","," ","t","a","s","k"," ","w","o","r","k","f","l","o","w","s",","," ","t","o","o","l","s",","," ","o","r"," ","g","u","i","d","e","d"," ","w","o","r","k","f","l","o","w","s",".","\n">>

\* the rule files CursorSetup.setup writes for the artifacts, then index.mdc
Cursor_outs(t, sel) ==
  LET agents    == collectAgentArtifacts(t, sel)
      tasks     == BaseCollect(t, TasksDirName, TRUE)
      tools     == BaseCollect(t, ToolsDirName, TRUE)
      workflows == BaseCollect(t, WorkflowsDirName, TRUE)
      mods      == ModulesOf(agents \o tasks \o tools \o workflows)
      rule(x, kindDir, kind) ==
        Out(NestedPath(CursorBeatRulesDir, x.module, kindDir, x.name, MdcExt),
            Cursor_processContent(readFile(t, x.path), x), x.module, kind, x.name)
  IN [i \in 1..Len(agents) |->
        Out(NestedPath(CursorBeatRulesDir, agents[i].module, AgentsDirName,
                       agents[i].name, MdcExt),
            Cursor_wrapLauncherWithMDC(agents[i].content, agents[i]),
            agents[i].module, "agent", agents[i].name)]
     \o [i \in 1..Len(tasks) |-> rule(tasks[i], TasksDirName, "task")]
     \o [i \in 1..Len(tools) |-> rule(tools[i], ToolsDirName, "tool")]
     \o [i \in 1..Len(workflows) |-> rule(workflows[i], WorkflowsDirName, "workflow")]
     \o <<Out(CursorBeatRulesDir \o <<<<"i","n","d","e","x",".","m","d","c">>>>,
              Cursor_indexContent(agents, tasks, tools, workflows, mods),
              <<>>, "index", <<>>)>>

\* CursorSetup.setup: cleanup, ensureDir, collect, module directories, write, index
CursorSetup_setup(f, t, sel) ==
  LET outs == Cursor_outs(t, sel)
  IN BaseWriteAll(
       EnsureModuleDirs(
         RunCollect(BaseEnsureDir(CursorSetup_cleanup(NewRun(f)), CursorBeatRulesDir)),
         CursorBeatRulesDir, ModulesOf(SubSeq(outs, 1, Len(outs) - 1))),
       outs)

(***************************************************************************)
(* AuggieSetup (auggie.js) and IFlowSetup (iflow.js)                       *)
(***************************************************************************)

\* path.join(projectDir, '.augment', 'commands', 'beat')
AuggieBeatDir == projectDir \o <<<<".","a","u","g","m","e","n","t">>, <<"c","o","m","m","a","n","d","s">>, <<"b","e","a","t">>>>

\* the cleanup removing the agent launchers only
AuggieSetup_cleanup_agentsOnly(r) == RemoveIfExists(r, AuggieBeatDir \o <<AgentsDirName>>)

\* AuggieSetup.cleanup
AuggieSetup_cleanup(r) == RemoveIfExists(r, AuggieBeatDir)

\* the title AuggieSetup.createTaskCommand and createToolCommand give an item
Auggie_itemTitle(item, content) ==
  LET m == MatchNameAttr(content)
  IN IF m # <<>> THEN m[1] ELSE BaseFormatTitle(item.name)

\* the command file AuggieSetup builds around a description, a heading and a body
Auggie_command(description, heading, content, module) ==
  <<"-","-","-","\n","d","e","s","c","r","i","p","t","i","o","n",":"," ","\"">> \o description \o <<"\"","\n","-","-","-","\n","\n","#"," ">> \o heading \o <<"\n","\n">> \o content
    \o <<"\n","\n","#","#"," ","M","o","d","u","l","e","\n","B","E","A","T"," ">> \o ToUpperCase(module) \o <<" ","m","o","d","u","l","e","\n">>

\* AuggieSetup.createTaskCommand
Auggie_createTaskCommand(task, content) ==
  LET taskName == Auggie_itemTitle(task, content)
  IN Auggie_command(<<"E","x","e","c","u","t","e"," ","t","h","e"," ">> \o taskName \o <<" ","t","a","s","k">>, taskName \o <<" ","T","a","s","k">>,
                    content, task.module)

\* AuggieSetup.createToolCommand
Auggie_createToolCommand(tool, content) ==
  LET toolName == Auggie_itemTitle(tool, content)
  IN Auggie_command(<<"U","s","e"," ","t","h","e"," ">> \o toolName \o <<" ","t","o","o","l">>, toolName \o <<" ","T","o","o","l">>,
                    content, tool.module)

\* AuggieSetup.createWorkflowCommand (the collected workflows carry no description)
Auggie_createWorkflowCommand(workflow, content) ==
  Auggie_command(<<"E","x","e","c","u","t","e"," ","t","h","e"," ">> \o workflow.name \o <<" ","w","o","r","k","f","l","o","w">>,
                 workflow.name \o <<" ","W","o","r","k","f","l","o","w">>, content, workflow.module)

\* the target path with the module as a directory: {root}/{kindDir}/{module}/{name}.md
TypedPath_moduleDir(root, kindDir, module, name) ==
  root \o <<kindDir, module, name \o MdExt>>

\* the per-kind target path {root}/{kindDir}/{module}-{name}.md
TypedPath(root, kindDir, module, name) ==
  root \o <<kindDir, module \o <<"-">> \o name \o MdExt>>

\* the files AuggieSetup.setup writes
Auggie_outs(t, sel) ==
  LET agents    == collectAgentArtifacts(t, sel)
      tasks     == BaseCollect(t, TasksDirName, TRUE)
      tools     == BaseCollect(t, ToolsDirName, TRUE)
      workflows == BaseCollect(t, WorkflowsDirName, TRUE)
  IN [i \in 1..Len(agents) |->
        Out(TypedPath(AuggieBeatDir, AgentsDirName, agents[i].module, agents[i].name),
            agents[i].content, agents[i].module, "agent", agents[i].name)]
     \o [i \in 1..Len(tasks) |->
        Out(TypedPath(AuggieBeatDir, TasksDirName, tasks[i].module, tasks[i].name),
            Auggie_createTaskCommand(tasks[i], readFile(t, tasks[i].path)),
            tasks[i].module, "task", tasks[i].name)]
     \o [i \in 1..Len(tools) |->
        Out(TypedPath(AuggieBeatDir, ToolsDirName, tools[i].module, tools[i].name),
            Auggie_createToolCommand(tools[i], readFile(t, tools[i].path)),
            tools[i].module, "tool", tools[i].name)]
     \o [i \in 1..Len(workflows) |->
        Out(TypedPath(AuggieBeatDir, WorkflowsDirName, workflows[i].module, workflows[i].name),
            Auggie_createWorkflowCommand(workflows[i], readFile(t, workflows[i].path)),
            workflows[i].module, "workflow", workflows[i].name)]

\* AuggieSetup.setup: cleanup, collect, the four kind directories, write
AuggieSetup_setup(f, t, sel) ==
  BaseWriteAll(
    EnsureAll(RunCollect(AuggieSetup_cleanup(NewRun(f))),
              <<AuggieBeatDir \o <<AgentsDirName>>, AuggieBeatDir \o <<TasksDirName>>,
                AuggieBeatDir \o <<ToolsDirName>>, AuggieBeatDir \o <<WorkflowsDirName>>>>),
    Auggie_outs(t, sel))

\* path.join(projectDir, '.iflow', 'commands', 'beat')
IFlowBeatDir == projectDir \o <<<<".","i","f","l","o","w">>, <<"c","o","m","m","a","n","d","s">>, <<"b","e","a","t">>>>

\* IFlowSetup.cleanup
IFlowSetup_cleanup(r) == RemoveIfExists(r, IFlowBeatDir)

\* the title IFlowSetup.createTaskCommand gives a task
IFlow_taskTitle(task, content) ==
  LET m == MatchNameElement(content)
  IN IF m # <<>> THEN m[1] ELSE BaseFormatTitle(task.name)

\* IFlowSetup.createTaskCommand
IFlow_createTaskCommand(task, content) ==
  LET taskName == IFlow_taskTitle(task, content)
  IN <<"#"," ","/","t","a","s","k","-">> \o task.name
       \o <<" ","C","o","m","m","a","n","d","\n","\n","W","h","e","n"," ","t","h","i","s"," ","c","o","m","m","a","n","d"," ","i","s"," ","u","s","e","d",","," ","e","x","e","c","u","t","e"," ","t","h","e"," ","f","o","l","l","o","w","i","n","g"," ","t","a","s","k",":","\n","\n","#","#"," ">>
       \o taskName \o <<" ","T","a","s","k","\n","\n">> \o content
       \o <<"\n","\n","#","#"," ","U","s","a","g","e","\n","\n","T","h","i","s"," ","c","o","m","m","a","n","d"," ","e","x","e","c","u","t","e","s"," ","t","h","e"," ">> \o taskName
       \o <<" ","t","a","s","k"," ","f","r","o","m"," ","t","h","e"," ","B","E","A","T"," ">> \o ToUpperCase(task.module)
       \o <<" ","m","o","d","u","l","e",".","\n","\n","#","#"," ","M","o","d","u","l","e","\n","\n","P","a","r","t"," ","o","f"," ","t","h","e"," ","B","E","A","T"," ">> \o ToUpperCase(task.module)
       \o <<" ","m","o","d","u","l","e",".","\n">>

\* the files IFlowSetup.setup writes: agents (createAgentCommand returns the
\* launcher as it is), then every task of getTasks(beatDir)
IFlow_outs(t, sel) ==
  LET agents == collectAgentArtifacts(t, sel)
      tasks  == BaseCollect(t, TasksDirName, FALSE)
  IN [i \in 1..Len(agents) |->
        Out(TypedPath(IFlowBeatDir, AgentsDirName, agents[i].module, agents[i].name),
            agents[i].content, agents[i].module, "agent", agents[i].name)]
     \o [i \in 1..Len(tasks) |->
        Out(TypedPath(IFlowBeatDir, TasksDirName, tasks[i].module, tasks[i].name),
            IFlow_createTaskCommand(tasks[i], readFile(t, tasks[i].path)),
            tasks[i].module, "task", tasks[i].name)]

\* the setup that skips a command file that is already there
IFlowSetup_setup_keepExisting(f, t, sel) ==
  BaseWriteAll(
    RunCollect(
      EnsureAll(NewRun(f), <<IFlowBeatDir \o <<AgentsDirName>>, IFlowBeatDir \o <<TasksDirName>>>>)),
    SelectSeq(IFlow_outs(t, sel), LAMBDA o : o.path \notin DOMAIN f))

\* IFlowSetup.setup: the agents and tasks directories, collect, write; it does not
\* call cleanup
IFlowSetup_setup(f, t, sel) ==
  BaseWriteAll(
    RunCollect(
      EnsureAll(NewRun(f), <<IFlowBeatDir \o <<AgentsDirName>>, IFlowBeatDir \o <<TasksDirName>>>>)),
    IFlow_outs(t, sel))

(***************************************************************************)
(* QwenSetup (qwen.js)                                                     *)
(***************************************************************************)

\* path.join(projectDir, this.configDir)
QwenDir == projectDir \o <<<<".","q","w","e","n">>>>

\* path.join(qwenDir, this.commandsDir, this.beatDir)
QwenBeatCommandsDir == QwenDir \o <<<<"c","o","m","m","a","n","d","s">>, <<"b","e","a","t">>>>

TomlExt == <<".","t","o","m","l">>

\* path.join(qwenDir, 'settings.json'); the file holds its parsed value: whether
\* JSON.parse succeeds, whether contextFileName is an array, the array, and another
\* key of the settings (theme); indent is the indentation the text is written with
QwenSettingsPath == QwenDir \o <<<<"s","e","t","t","i","n","g","s",".","j","s","o","n">>>>

\* an entry of contextFileName that is no string (the JSON value null):
\* fileName.startsWith is no function for it, and the call throws
JsonNull == <<"null">>

IsJsonString(value) == value # JsonNull

\* the filter that drops every entry with 'agents/' or 'beat-method/' in it
Qwen_keepContextFile_anywhere(fileName) ==
  ~Includes(fileName, <<"a","g","e","n","t","s","/">>) /\ ~Includes(fileName, <<"b","e","a","t","-","m","e","t","h","o","d","/">>)

\* the filter of updateSettings over contextFileName
Qwen_keepContextFile(fileName) ==
  ~StartsWith(fileName, <<"a","g","e","n","t","s","/">>) /\ ~StartsWith(fileName, <<"b","e","a","t","-","m","e","t","h","o","d","/">>)

\* QwenSetup.updateSettings: rewrite settings.json, as JSON.stringify(settings,
\* null, 2), when the filter dropped an entry; a failure to parse, to filter or to
\* write is caught and changes nothing
QwenSetup_updateSettings(r) ==
  IF r.err \/ ~pathExists(r.fs, QwenSettingsPath) THEN r
  ELSE LET settings == r.fs[QwenSettingsPath].content
           filtered == SelectSeq(settings.contextFileName, Qwen_keepContextFile)
       IN IF settings.json /\ settings.isArray
             /\ (\A i \in 1..Len(settings.contextFileName) :
                   IsJsonString(settings.contextFileName[i]))
             /\ Len(filtered) # Len(settings.contextFileName)
             /\ CanWriteFile(r.fs, QwenSettingsPath)
            THEN [r EXCEPT !.fs = fsWriteFile(r.fs, QwenSettingsPath,
                                   [settings EXCEPT !.contextFileName = filtered,
                                                    !.indent = 2])]
            ELSE r

\* QwenSetup.cleanupOldConfig: remove .qwen/agents, .qwen/beat-method, .qwen/beatDir
QwenSetup_cleanupOldConfig(r) ==
  RemoveIfExists(
    RemoveIfExists(
      RemoveIfExists(r, QwenDir \o <<<<"a","g","e","n","t","s">>>>),
      QwenDir \o <<<<"b","e","a","t","-","m","e","t","h","o","d">>>>),
    QwenDir \o <<<<"b","e","a","t","D","i","r">>>>)

\* QwenSetup.processAgentLauncherContent
Qwen_processAgentLauncherContent(launcherContent, metadata) ==
  LET m     == MatchDescriptionField(launcherContent)
      title == IF m # <<>> THEN m[1] ELSE metadata.name
  IN <<"d","e","s","c","r","i","p","t","i","o","n"," ","="," ","\"","B","E","A","T"," ">> \o ToUpperCase(metadata.module) \o <<" ","A","g","e","n","t",":"," ">> \o title
       \o <<"\"","\n","p","r","o","m","p","t"," ","="," ","\"","\"","\"","\n">> \o Trim(StripFrontmatter(launcherContent)) \o <<"\n","\"","\"","\"","\n">>

\* the description with the probe for '<tool' tried before the one for '<task'
Qwen_description_toolFirst(content, metadata) ==
  LET isAgent    == Includes(content, <<"<","a","g","e","n","t">>)
      isTask     == Includes(content, <<"<","t","a","s","k">>)
      isTool     == Includes(content, <<"<","t","o","o","l">>)
      isWorkflow == \/ Includes(content, <<"w","o","r","k","f","l","o","w",":">>)
                    \/ Includes(content, <<"n","a","m","e",":">>)
      titleMatch == MatchTitleAttr(content)
      nameMatch  == MatchNameAttr(content)
      title      == IF titleMatch # <<>> THEN titleMatch[1] ELSE metadata.name
      taskName   == IF nameMatch # <<>> THEN nameMatch[1] ELSE metadata.name
      toolName   == IF nameMatch # <<>> THEN nameMatch[1] ELSE metadata.name
      head       == <<"B","E","A","T"," ">> \o ToUpperCase(metadata.module)
  IN IF isAgent THEN head \o <<" ","A","g","e","n","t",":"," ">> \o title
     ELSE IF isTool THEN head \o <<" ","T","o","o","l",":"," ">> \o toolName
     ELSE IF isTask THEN head \o <<" ","T","a","s","k",":"," ">> \o taskName
     ELSE IF isWorkflow THEN head \o <<" ","W","o","r","k","f","l","o","w",":"," ">> \o metadata.name
     ELSE head \o <<":"," ">> \o metadata.name

\* the description QwenSetup.processContent derives (qwen.js 245-268)
Qwen_description(content, metadata) ==
  LET isAgent    == Includes(content, <<"<","a","g","e","n","t">>)
      isTask     == Includes(content, <<"<","t","a","s","k">>)
      isTool     == Includes(content, <<"<","t","o","o","l">>)
      isWorkflow == \/ Includes(content, <<"w","o","r","k","f","l","o","w",":">>)
                    \/ Includes(content, <<"n","a","m","e",":">>)
      titleMatch == MatchTitleAttr(content)
      nameMatch  == MatchNameAttr(content)
      title      == IF titleMatch # <<>> THEN titleMatch[1] ELSE metadata.name
      taskName   == IF nameMatch # <<>> THEN nameMatch[1] ELSE metadata.name
      toolName   == IF nameMatch # <<>> THEN nameMatch[1] ELSE metadata.name
      head       == <<"B","E","A","T"," ">> \o ToUpperCase(metadata.module)
  IN IF isAgent THEN head \o <<" ","A","g","e","n","t",":"," ">> \o title
     ELSE IF isTask THEN head \o <<" ","T","a","s","k",":"," ">> \o taskName
     ELSE IF isTool THEN head \o <<" ","T","o","o","l",":"," ">> \o toolName
     ELSE IF isWorkflow THEN head \o <<" ","W","o","r","k","f","l","o","w",":"," ">> \o metadata.name
     ELSE head \o <<":"," ">> \o metadata.name

\* QwenSetup.processContent
Qwen_processContent(content, metadata) ==
  <<"d","e","s","c","r","i","p","t","i","o","n"," ","="," ","\"">> \o Qwen_description(content, metadata)
    \o <<"\"","\n","p","r","o","m","p","t"," ","="," ","\"","\"","\"","\n">> \o BaseProcessContent(content) \o <<"\n","\"","\"","\"","\n">>

\* QwenSetup.formatTitle (no caller in qwen.js)
Qwen_formatTitle(name) == formatTitle(name)

\* the files QwenSetup.setup writes
Qwen_outs(t, sel) ==
  LET agents    == collectAgentArtifacts(t, sel)
      tasks     == getTasksFromBeat(t, sel)
      tools     == BaseCollect(t, ToolsDirName, TRUE)
      workflows == BaseCollect(t, WorkflowsDirName, TRUE)
      meta(x)   == [module |-> x.module, name |-> x.name]
  IN [i \in 1..Len(agents) |->
        Out(NestedPath(QwenBeatCommandsDir, agents[i].module, AgentsDirName, agents[i].name, TomlExt),
            Qwen_processAgentLauncherContent(agents[i].content, meta(agents[i])),
            agents[i].module, "agent", agents[i].name)]
     \o [i \in 1..Len(tasks) |->
        Out(NestedPath(QwenBeatCommandsDir, tasks[i].module, TasksDirName, tasks[i].name, TomlExt),
            Qwen_processContent(readFile(t, tasks[i].path), meta(tasks[i])),
            tasks[i].module, "task", tasks[i].name)]
     \o [i \in 1..Len(tools) |->
        Out(NestedPath(QwenBeatCommandsDir, tools[i].module, ToolsDirName, tools[i].name, TomlExt),
            Qwen_processContent(readFile(t, tools[i].path), meta(tools[i])),
            tools[i].module, "tool", tools[i].name)]
     \o [i \in 1..Len(workflows) |->
        Out(NestedPath(QwenBeatCommandsDir, workflows[i].module, WorkflowsDirName, workflows[i].name, TomlExt),
            Qwen_processContent(readFile(t, workflows[i].path), meta(workflows[i])),
            workflows[i].module, "workflow", workflows[i].name)]

\* QwenSetup.setup: ensureDir of commands/beat, updateSettings, cleanupOldConfig,
\* collect, the module directories, write; commands/beat itself is not cleared
QwenSetup_setup(f, t, sel) ==
  LET outs == Qwen_outs(t, sel)
  IN BaseWriteAll(
       EnsureModuleDirs(
         RunCollect(
           QwenSetup_cleanupOldConfig(
             QwenSetup_updateSettings(BaseEnsureDir(NewRun(f), QwenBeatCommandsDir)))),
         QwenBeatCommandsDir, ModulesOf(outs)),
       outs)

\* QwenSetup.cleanup: remove commands/beat, .qwen/beat-method and .qwen/Beat
QwenSetup_cleanup(r) ==
  RemoveIfExists(
    RemoveIfExists(
      RemoveIfExists(r, QwenBeatCommandsDir),
      QwenDir \o <<<<"b","e","a","t","-","m","e","t","h","o","d">>>>),
    QwenDir \o <<<<"B","e","a","t">>>>)

(***************************************************************************)
(* Content trees and destination states the installer is run on            *)
(***************************************************************************)

\* the only artifact is core/agents/dev.md with the explicit title "Developer"
TreeDev ==
  <<[path |-> <<<<"c","o","r","e">>, <<"a","g","e","n","t","s">>, <<"d","e","v",".","m","d">>>>,
     content |-> <<"<","a","g","e","n","t"," ","i","d","=","\"","d","e","v","\""," ","t","i","t","l","e","=","\"","D","e","v","e","l","o","p","e","r","\"",">","a","c","t","<","/","a","g","e","n","t",">">>]>>

\* files the exclusion rules are about: a customization override and a locally
\* skipped file among the agents and among the tasks of core
SkippedFiles ==
  <<[path |-> <<<<"c","o","r","e">>, <<"a","g","e","n","t","s">>, <<"p","m",".","c","u","s","t","o","m","i","z","e",".","m","d">>>>, content |-> <<"<","a","g","e","n","t"," ","t","i","t","l","e","=","\"","P","\"",">","p","<","/","a","g","e","n","t",">">>],
    [path |-> <<<<"c","o","r","e">>, <<"a","g","e","n","t","s">>, <<"q","a",".","m","d">>>>, content |-> <<"<","a","g","e","n","t"," ","l","o","c","a","l","s","k","i","p","=","\"","t","r","u","e","\"",">","q","<","/","a","g","e","n","t",">">>],
    [path |-> <<<<"c","o","r","e">>, <<"t","a","s","k","s">>, <<"a",".","c","u","s","t","o","m","i","z","e",".","m","d">>>>, content |-> <<"<","t","a","s","k",">","a","<","/","t","a","s","k",">">>],
    [path |-> <<<<"c","o","r","e">>, <<"t","a","s","k","s">>, <<"b",".","m","d">>>>, content |-> <<"<","t","a","s","k"," ","l","o","c","a","l","s","k","i","p","=","\"","t","r","u","e","\"",">","b","<","/","t","a","s","k",">">>]>>

\* one artifact of every kind, and the files the collectors are to skip; the task
\* dev-story and the workflow plan carry none of the title patterns
TreeFull ==
  TreeDev \o
  <<[path |-> <<<<"c","o","r","e">>, <<"t","a","s","k","s">>, <<"d","e","v","-","s","t","o","r","y",".","m","d">>>>,
     content |-> <<"<","t","a","s","k"," ","s","t","a","n","d","a","l","o","n","e","=","\"","t","r","u","e","\"",">","d","o","<","/","t","a","s","k",">">>],
    [path |-> <<<<"c","o","r","e">>, <<"t","o","o","l","s">>, <<"l","i","n","t",".","m","d">>>>,
     content |-> <<"<","t","o","o","l"," ","n","a","m","e","=","\"","L","i","n","t","\""," ","s","t","a","n","d","a","l","o","n","e","=","\"","t","r","u","e","\"",">","r","u","n","<","/","t","o","o","l",">">>],
    [path |-> <<<<"c","o","r","e">>, <<"w","o","r","k","f","l","o","w","s">>, <<"p","l","a","n",".","m","d">>>>,
     content |-> <<"w","o","r","k","f","l","o","w",":"," ","g","o"," ","s","t","a","n","d","a","l","o","n","e","=","\"","t","r","u","e","\"">>]>>
  \o SkippedFiles

\* two modules with hyphenated names: agent y-pm of module x, agent pm of module x-y
TreeHyphen ==
  <<[path |-> <<<<"x">>, <<"a","g","e","n","t","s">>, <<"y","-","p","m",".","m","d">>>>, content |-> <<"<","a","g","e","n","t"," ","t","i","t","l","e","=","\"","A","\"",">","a","<","/","a","g","e","n","t",">">>],
    [path |-> <<<<"x","-","y">>, <<"a","g","e","n","t","s">>, <<"p","m",".","m","d">>>>, content |-> <<"<","a","g","e","n","t"," ","t","i","t","l","e","=","\"","B","\"",">","b","<","/","a","g","e","n","t",">">>]>>

\* an installation without artifacts
TreeEmpty == <<>>

Trees == {TreeDev, TreeFull, TreeHyphen, TreeEmpty}

\* the values of options.selectedModules
SelectedModules == {<<>>, <<<<"x">>, <<"x","-","y">>>>, <<<<"x">>, CoreModule>>}

\* the adapters
PrefixIdes == {"trae", "opencode", "codex", "cline"}
OwnedDirIdes == {"windsurf", "cursor", "auggie", "iflow", "qwen"}
Ides == PrefixIdes \cup OwnedDirIdes

\* the directories a prefix-scoped adapter cleans
PrefixDirs(a) ==
  CASE a = "trae"     -> {TraeRulesDir}
    [] a = "opencode" -> {OpenCodeAgentsDir, OpenCodeCommandsDir}
    [] a = "codex"    -> {getCodexPromptDir}
    [] a = "cline"    -> {ClineWorkflowsDir}
    [] OTHER          -> {}

\* the 'beat' subdirectory an owned-subdirectory adapter writes into
OwnedDir(a) ==
  CASE a = "windsurf" -> WindsurfBeatDir
    [] a = "cursor"   -> CursorBeatRulesDir
    [] a = "auggie"   -> AuggieBeatDir
    [] a = "iflow"    -> IFlowBeatDir
    [] a = "qwen"     -> QwenBeatCommandsDir

\* the IDE's config directory (.windsurf, .cursor, .augment, .iflow, .qwen)
ConfigDir(a) == SubSeq(OwnedDir(a), 1, Len(projectDir) + 1)

\* a destination nobody has written to: only the project and the home directory
EmptyFs == fsEnsureDir(fsEnsureDir(<<>>, projectDir), homeDir)

\* what a user may already keep in a directory the prefix-scoped adapters clean:
\* unmarked files, a marked rule, a marked file of another extension and a marked
\* directory with a file in it
SeedPrefixDir(f, d) ==
  LET g == fsEnsureDir(fsEnsureDir(f, d), d \o <<<<"b","e","a","t","-","d","i","r">>>>)
  IN fsWriteFile(fsWriteFile(fsWriteFile(fsWriteFile(fsWriteFile(g,
       d \o <<<<"n","o","t","e","s",".","m","d">>>>, <<"n">>),
       d \o <<<<"b","e","a","t","n","i","k",".","m","d">>>>, <<"k">>),
       d \o <<<<"b","e","a","t","-","o","l","d",".","m","d">>>>, <<"o">>),
       d \o <<<<"b","e","a","t","-","o","l","d",".","t","x","t">>>>, <<"t">>),
       d \o <<<<"b","e","a","t","-","d","i","r">>, <<"k","e","e","p",".","m","d">>>>, <<"d">>)

\* what may already lie around an owned 'beat' subdirectory: a user's file next to
\* it and a file of an earlier version in it
SeedOwnedDir(f, d) ==
  LET g == fsEnsureDir(f, d)
  IN fsWriteFile(fsWriteFile(g, Dirname(d) \o <<<<"m","i","n","e",".","m","d">>>>, <<"m">>), d \o <<<<"o","l","d",".","m","d">>>>, <<"o">>)

\* a user's own .qwen/agents directory and a settings.json that names context files
SeedQwen(f) ==
  LET g == fsEnsureDir(f, QwenDir \o <<<<"a","g","e","n","t","s">>>>)
  IN fsWriteFile(fsWriteFile(g, QwenDir \o <<<<"a","g","e","n","t","s">>, <<"m","y",".","m","d">>>>, <<"u">>),
       QwenSettingsPath,
       [json |-> TRUE, isArray |-> TRUE,
        contextFileName |-> <<<<"a","g","e","n","t","s","/","d","e","v",".","m","d">>, <<"Q","W","E","N",".","m","d">>>>,
        theme |-> <<"d","a","r","k">>, indent |-> 4])

\* the user's own rules for Cursor: the file .cursorrules of the project
CursorRulesFile == projectDir \o <<<<".","c","u","r","s","o","r","r","u","l","e","s">>>>

\* a destination with user content in every adapter's directory
SeededFs ==
  fsWriteFile(SeedQwen(
    SeedOwnedDir(SeedOwnedDir(SeedOwnedDir(SeedOwnedDir(SeedOwnedDir(
      SeedPrefixDir(SeedPrefixDir(SeedPrefixDir(SeedPrefixDir(SeedPrefixDir(EmptyFs,
        TraeRulesDir), OpenCodeAgentsDir), OpenCodeCommandsDir), getCodexPromptDir),
        ClineWorkflowsDir),
      WindsurfBeatDir), CursorBeatRulesDir), AuggieBeatDir), IFlowBeatDir),
      QwenBeatCommandsDir)), CursorRulesFile, <<"r">>)

\* the seeded destination without any permission to change it: every directory and
\* every file is read-only
ReadOnlyFs == [q \in DOMAIN SeededFs |-> [SeededFs[q] EXCEPT !.mode = "ro"]]

InitialFs == {EmptyFs, SeededFs, ReadOnlyFs}

\* the values of the environment variable CODEX_HOME: not set, or a directory
\* other than $HOME/.codex
CodexHomes == {<<>>, <<<<"c","o","d","e","x","-","h","o","m","e">>>>}

(***************************************************************************)
(* IdeConfigManager (core/ide-config-manager.js)                           *)
(*                                                                         *)
(* A JavaScript value is a record [t, v] of its type and its content; an    *)
(* object is the sequence of its entries [k, v] in insertion order.        *)
(* yaml.dump and yaml.load are js-yaml's, for the documents the manager    *)
(* writes and a user may leave in their place: block mappings one level    *)
(* deep whose scalars are null, booleans, timestamps and strings.          *)
(***************************************************************************)

Undefined == [t |-> "undefined", v |-> <<>>]

Null == [t |-> "null", v |-> <<>>]

Bool(b) == [t |-> "bool", v |-> b]

Str(s) == [t |-> "str", v |-> s]

\* a Date, by its ISO text
Date(s) == [t |-> "date", v |-> s]

Obj(entries) == [t |-> "object", v |-> entries]

\* the conversion to boolean of  x || y,  x && y  and  if (x)
Truthy(x) ==
  /\ x.t \notin {"undefined", "null"}
  /\ ~(x.t = "bool" /\ x.v = FALSE)
  /\ ~(x.t = "str" /\ x.v = <<>>)

\* x[key]: undefined when x is no object or has no such property
Get(x, key) ==
  IF x.t = "object" /\ \E i \in 1..Len(x.v) : x.v[i].k = key
  THEN x.v[CHOOSE i \in 1..Len(x.v) : x.v[i].k = key].v
  ELSE Undefined

Digits == <<"0","1","2","3","4","5","6","7","8","9">>

\* the clock readings of the model: 0..MaxTime milliseconds after the first
MaxTime == 1

Times == 0..MaxTime

\* new Date().toISOString() at clock reading t
toISOString(t) == <<"2","0","2","6","-","0","1","-","0","1","T","0","0",":","0","0",":","0","0",".","0","0">> \o <<Digits[t + 1]>> \o <<"Z">>

\* the shape js-yaml's timestamp type resolves: YYYY-MM-DDThh:mm:ss.fffZ
IsTimestamp(s) ==
  /\ Len(s) = 24
  /\ s[5] = "-" /\ s[8] = "-" /\ s[11] = "T" /\ s[14] = ":" /\ s[17] = ":"
  /\ s[20] = "." /\ s[24] = "Z"

\* yaml.load of a plain scalar: the implicit types null, bool and timestamp are
\* tried before string
YamlResolve(s) ==
  IF s \in {<<>>, <<"~">>, <<"n","u","l","l">>, <<"N","u","l","l">>, <<"N","U","L","L">>} THEN Null
  ELSE IF s \in {<<"t","r","u","e">>, <<"T","r","u","e">>, <<"T","R","U","E">>} THEN Bool(TRUE)
  ELSE IF s \in {<<"f","a","l","s","e">>, <<"F","a","l","s","e">>, <<"F","A","L","S","E">>} THEN Bool(FALSE)
  ELSE IF IsTimestamp(s) THEN Date(s)
  ELSE Str(s)

\* the characters a plain scalar cannot start with
YamlIndicators ==
  {"-", "?", ":", ",", "[", "]", "{", "}", "#", "&", "*", "!", "|", ">", "'", "\"", "%", "@",
   " ", Backtick}

\* yaml.dump writes a string plain when it reads back as the same string
YamlPlainOk(s) ==
  /\ s # <<>>
  /\ YamlResolve(s).t = "str"
  /\ s[1] \notin YamlIndicators
  /\ s[Len(s)] \notin {" ", ":"}
  /\ ~Includes(s, <<":"," ">>) /\ ~Includes(s, <<" ","#">>) /\ ~Includes(s, <<"\n">>)

\* yaml.dump that writes every string plain
YamlDumpScalar_plain(x) ==
  CASE x.t = "bool" -> IF x.v THEN <<"t","r","u","e">> ELSE <<"f","a","l","s","e">>
    [] x.t \in {"date", "str"} -> x.v
    [] OTHER -> <<"n","u","l","l">>

\* yaml.dump of a scalar: a string that would read back as another type or break
\* the line is single-quoted, with every quote in it doubled
YamlDumpScalar(x) ==
  CASE x.t = "bool" -> IF x.v THEN <<"t","r","u","e">> ELSE <<"f","a","l","s","e">>
    [] x.t = "date" -> x.v
    [] x.t = "str" -> IF YamlPlainOk(x.v) THEN x.v
                      ELSE <<"'">> \o ReplaceAll(x.v, <<"'">>, <<"'", "'">>) \o <<"'">>
    [] OTHER -> <<"n","u","l","l">>

\* the lines of a block mapping (indent: 2): `key: scalar`, `key: {}` for an empty
\* object and `key:` followed by the indented entries of any other object
RECURSIVE YamlDumpEntries(_, _)
YamlDumpEntries(entries, indent) ==
  IF entries = <<>> THEN <<>>
  ELSE LET e == Head(entries)
           line == IF e.v.t # "object"
                     THEN indent \o e.k \o <<":"," ">> \o YamlDumpScalar(e.v) \o <<"\n">>
                   ELSE IF e.v.v = <<>> THEN indent \o e.k \o <<":"," ","{","}","\n">>
                   ELSE indent \o e.k \o <<":","\n">> \o YamlDumpEntries(e.v.v, indent \o <<" "," ">>)
       IN line \o YamlDumpEntries(Tail(entries), indent)

\* yaml.dump(x, {indent: 2, lineWidth: -1, noRefs: true, sortKeys: false})
yamlDump(x) ==
  IF x.t # "object" THEN YamlDumpScalar(x) \o <<"\n">>
  ELSE IF x.v = <<>> THEN <<"{","}","\n">>
  ELSE YamlDumpEntries(x.v, <<>>)

\* s from its first character that is no white space
RECURSIVE YamlSkipLeft(_)
YamlSkipLeft(s) ==
  IF s = <<>> \/ ~IsSpace(s[1]) THEN s ELSE YamlSkipLeft(Tail(s))

\* s up to its last character that is no white space
RECURSIVE YamlSkipRight(_)
YamlSkipRight(s) ==
  IF s = <<>> \/ ~IsSpace(s[Len(s)]) THEN s ELSE YamlSkipRight(SubSeq(s, 1, Len(s) - 1))

\* a scalar or a line without the white space around it
YamlTrim(s) == YamlSkipRight(YamlSkipLeft(s))

\* the result of reading a line that is no mapping entry
YamlBadLine == [ok |-> FALSE, k |-> <<>>, v |-> Null, open |-> FALSE]

\* One line of a block mapping: `key: value` or `key:`. The value is {}, a quoted
\* string or a plain scalar; a plain scalar that holds another `: ` is a
\* YAMLException, and so is a quote that is not closed. open: there is no value on
\* the line, so indented entries may follow.
YamlLine(line) ==
  LET body == YamlTrim(line)
      i    == IndexOf(body, <<":"," ">>)
      key  == IF i = 0 THEN SubSeq(body, 1, Len(body) - 1) ELSE SubSeq(body, 1, i - 1)
      rest == IF i = 0 THEN <<>> ELSE YamlTrim(SubSeq(body, i + 2, Len(body)))
      in   == SubSeq(rest, 2, Len(rest) - 1)
      entry(v, open) == [ok |-> TRUE, k |-> key, v |-> v, open |-> open]
  IN IF i = 0 /\ ~EndsWith(body, <<":">>) THEN YamlBadLine
     ELSE IF rest = <<>> THEN entry(Null, TRUE)
     ELSE IF rest = <<"{","}">> THEN entry(Obj(<<>>), FALSE)
     ELSE IF rest[1] = "'"
       THEN IF Len(rest) >= 2 /\ rest[Len(rest)] = "'"
                 /\ ~Includes(ReplaceAll(in, <<"'", "'">>, <<>>), <<"'">>)
              THEN entry(Str(ReplaceAll(in, <<"'", "'">>, <<"'">>)), FALSE)
              ELSE YamlBadLine
     ELSE IF rest[1] = "\""
       THEN IF Len(rest) >= 2 /\ rest[Len(rest)] = "\"" /\ ~Includes(in, <<"\"">>)
              THEN entry(Str(in), FALSE)
              ELSE YamlBadLine
     ELSE IF Includes(rest, <<":"," ">>) \/ EndsWith(rest, <<":">>) THEN YamlBadLine
     ELSE entry(YamlResolve(rest), FALSE)

\* The lines of a block mapping, read in order. An indented line is an entry of the
\* object under the last key, which must have been left open.
RECURSIVE YamlLoadLines(_, _, _)
YamlLoadLines(lines, entries, open) ==
  IF lines = <<>> THEN [ok |-> TRUE, v |-> Obj(entries)]
  ELSE LET e == YamlLine(Head(lines))
           n == Len(entries)
       IN IF ~e.ok THEN [ok |-> FALSE, v |-> Undefined]
          ELSE IF Head(lines)[1] # " "
            THEN YamlLoadLines(Tail(lines), Append(entries, [k |-> e.k, v |-> e.v]), e.open)
          ELSE IF ~open THEN [ok |-> FALSE, v |-> Undefined]
          ELSE LET sofar == IF entries[n].v.t = "object" THEN entries[n].v.v ELSE <<>>
                   inner == Obj(Append(sofar, [k |-> e.k, v |-> e.v]))
               IN YamlLoadLines(Tail(lines),
                                [entries EXCEPT ![n] = [k |-> entries[n].k, v |-> inner]],
                                TRUE)

\* the lines of a document: what lies between its line breaks
YamlLines(s) ==
  LET ends == {i \in 1..Len(s) : s[i] = "\n"} \cup {Len(s) + 1}
      nth(k) == CHOOSE e \in ends : Cardinality({j \in ends : j < e}) = k - 1
  IN [k \in 1..Cardinality(ends) |->
        SubSeq(s, (IF k = 1 THEN 0 ELSE nth(k - 1)) + 1, nth(k) - 1)]

\* yaml.load(content): ok is false when it throws a YAMLException. An empty
\* document is undefined, a single line without `: ` or a final `:` is a scalar.
yamlLoad(content) ==
  LET lines == SelectSeq(YamlLines(content), LAMBDA l : YamlTrim(l) # <<>>)
  IN IF lines = <<>> THEN [ok |-> TRUE, v |-> Undefined]
     ELSE IF Len(lines) = 1 /\ ~Includes(lines[1], <<":", " ">>)
                            /\ ~EndsWith(YamlTrim(lines[1]), <<":">>)
       THEN [ok |-> TRUE, v |-> YamlResolve(YamlTrim(lines[1]))]
     ELSE YamlLoadLines(lines, <<>>, FALSE)

\* getIdeConfigDir(beatDir): path.join(beatDir, '_cfg', 'ides')
getIdeConfigDir(beat) == beat \o <<<<"_","c","f","g">>, <<"i","d","e","s">>>>

\* getIdeConfigPath(beatDir, ideName)
getIdeConfigPath(beat, ideName) == getIdeConfigDir(beat) \o <<ideName \o <<".","y","a","m","l">>>>

\* fs.readFile(p) returns: p is a file the process may read (else EISDIR, EACCES)
CanReadFile(f, p) == f[p].type = "file" /\ f[p].mode \in {"rw", "ro"}

\* loadIdeConfig(beatDir, ideName): null when there is no file, and when readFile
\* or yaml.load throws
loadIdeConfig(f, ideName) ==
  LET configPath == getIdeConfigPath(beatDir, ideName)
  IN IF ~pathExists(f, configPath) THEN Null
     ELSE IF ~CanReadFile(f, configPath) THEN Null
     ELSE LET config == yamlLoad(f[configPath].content)
          IN IF config.ok THEN config.v ELSE Null

\* the save that stamps configured_date anew every time
saveIdeConfig_restamp(f, ideName, configuration, now) ==
  LET r == RunEnsureDir(NewRun(f), getIdeConfigDir(beatDir))
      configData == Obj(<<[k |-> <<"i","d","e">>, v |-> Str(ideName)],
                          [k |-> <<"c","o","n","f","i","g","u","r","e","d","_","d","a","t","e">>, v |-> Str(now)],
                          [k |-> <<"l","a","s","t","_","u","p","d","a","t","e","d">>, v |-> Str(now)],
                          [k |-> <<"c","o","n","f","i","g","u","r","a","t","i","o","n">>,
                           v |-> IF Truthy(configuration) THEN configuration ELSE Obj(<<>>)]>>)
  IN RunWriteFile(r, [path |-> getIdeConfigPath(beatDir, ideName),
                      content |-> yamlDump(configData)])

\* saveIdeConfig(beatDir, ideName, configuration) at the clock reading now:
\* ensureDir, configured_date from the existing file when it has one, dump, write
saveIdeConfig(f, ideName, configuration, now) ==
  LET r == RunEnsureDir(NewRun(f), getIdeConfigDir(beatDir))
      configPath == getIdeConfigPath(beatDir, ideName)
      existing == IF pathExists(r.fs, configPath) THEN loadIdeConfig(r.fs, ideName) ELSE Null
      configuredDate == IF Truthy(existing) /\ Truthy(Get(existing, <<"c","o","n","f","i","g","u","r","e","d","_","d","a","t","e">>))
                        THEN Get(existing, <<"c","o","n","f","i","g","u","r","e","d","_","d","a","t","e">>)
                        ELSE Str(now)
      configData == Obj(<<[k |-> <<"i","d","e">>, v |-> Str(ideName)],
                          [k |-> <<"c","o","n","f","i","g","u","r","e","d","_","d","a","t","e">>, v |-> configuredDate],
                          [k |-> <<"l","a","s","t","_","u","p","d","a","t","e","d">>, v |-> Str(now)],
                          [k |-> <<"c","o","n","f","i","g","u","r","a","t","i","o","n">>,
                           v |-> IF Truthy(configuration) THEN configuration ELSE Obj(<<>>)]>>)
      yamlContent == yamlDump(configData)
      content == IF EndsWith(yamlContent, <<"\n">>) THEN yamlContent ELSE yamlContent \o <<"\n">>
  IN RunWriteFile(r, [path |-> configPath, content |-> content])

\* file.replace('.yaml', '')
IdeNameOfFile(file) == ReplaceFirst(file, <<".","y","a","m","l">>, <<>>)

\* loadAllIdeConfigs(beatDir): the entries [k, v] of the object it returns
loadAllIdeConfigs(f) ==
  LET configDir == getIdeConfigDir(beatDir)
  IN IF ~pathExists(f, configDir) THEN {}
     ELSE {[k |-> IdeNameOfFile(file),
            v |-> Get(loadIdeConfig(f, IdeNameOfFile(file)), <<"c","o","n","f","i","g","u","r","a","t","i","o","n">>)] :
             file \in {x \in readdir(f, configDir) :
                         /\ EndsWith(x, <<".","y","a","m","l">>)
                         /\ Truthy(loadIdeConfig(f, IdeNameOfFile(x)))}}

\* hasIdeConfig(beatDir, ideName)
hasIdeConfig(f, ideName) == pathExists(f, getIdeConfigPath(beatDir, ideName))

\* the delete that clears the whole configuration directory
deleteIdeConfig_all(f, ideName) ==
  RemoveIfExists(NewRun(f), getIdeConfigDir(beatDir))

\* deleteIdeConfig(beatDir, ideName)
deleteIdeConfig(f, ideName) ==
  RemoveIfExists(NewRun(f), getIdeConfigPath(beatDir, ideName))

\* the IDE names of the model: one of the installer's and one that holds '.yaml'
IdeNames == {<<"c","u","r","s","o","r">>, <<"m","y",".","y","a","m","l",".","i","d","e">>}

\* a configuration with a plain string, a string that reads as a boolean when it
\* is not quoted, and a boolean
SomeConfiguration ==
  Obj(<<[k |-> <<"t","h","e","m","e">>, v |-> Str(<<"d","a","r","k">>)],
        [k |-> <<"m","o","d","e">>, v |-> Str(<<"t","r","u","e">>)],
        [k |-> <<"y","o","l","o">>, v |-> Bool(FALSE)]>>)

\* the configuration argument: nothing, or an object
Configurations == {Undefined, Null, SomeConfiguration}

\* what a user, or another program, may leave at an IDE's config path: text that
\* is no YAML, a record without configured_date, an empty file, and a file of
\* another owner that the process may neither read nor write
HandEdited ==
  {FileNode(<<"i","d","e",":"," ","c","u","r","s","o","r",":"," ","x","\n">>),
   FileNode(<<"i","d","e",":"," ","c","u","r","s","o","r","\n","c","o","n","f","i","g","u","r","a","t","i","o","n",":"," ","{","}","\n">>),
   FileNode(<<>>),
   [type |-> "file", content |-> <<>>, mode |-> "none"]}

\* an installation without saved configurations
InstalledFs == fsEnsureDir(EmptyFs, beatDir)

\* an installation whose configuration directory holds a file that is no '.yaml'
NotesFs ==
  fsWriteFile(fsEnsureDir(InstalledFs, getIdeConfigDir(beatDir)),
              getIdeConfigDir(beatDir) \o <<<<"n","o","t","e","s",".","t","x","t">>>>, <<"n">>)

(***************************************************************************)
(* The installer as a state machine                                        *)
(***************************************************************************)

VARIABLES
  fs,          \* the destination file system
  tree,        \* the content tree under beatDir
  ide,         \* the adapter this installation is configured for
  last,        \* the last handler that ran: what it was given and what it did
  codexHome,   \* process.env.CODEX_HOME: a directory, or <<>> when it is not set
  saves        \* per IDE name, the clock readings of the first and of the latest save
               \* since its config file was last deleted or edited by hand, and the
               \* configuration of the latest; <<>> when there was none

vars == <<fs, tree, ide, last, codexHome, saves>>

\* the paths of the files a run has written
WrittenPaths(written) == {written[i].path : i \in 1..Len(written)}

\* the record kept of a handler's run
Ran(op, pre, t, sel, r) ==
  [op |-> op, pre |-> pre, tree |-> t, sel |-> sel, written |-> r.written, err |-> r.err,
   log |-> r.log]

Init ==
  /\ fs \in InitialFs
  /\ tree \in Trees
  /\ ide \in Ides
  /\ last = Ran("none", fs, tree, <<>>, NewRun(fs))
  /\ codexHome \in (IF ide = "codex" THEN CodexHomes ELSE {<<>>})
  /\ saves = <<>>

\* Each handler is an action over the handler's code, which Next passes to it.

\* TraeSetup.setup(projectDir, beatDir, options)
TraeSetup(setup(_, _, _)) ==
  /\ ide = "trae"
  /\ \E sel \in SelectedModules :
       LET r == setup(fs, tree, sel)
       IN /\ fs' = r.fs
          /\ last' = Ran("setup", fs, tree, sel, r)
  /\ UNCHANGED <<tree, ide, codexHome, saves>>

\* TraeSetup.cleanup(projectDir)
TraeCleanup(cleanup(_)) ==
  /\ ide = "trae"
  /\ LET r == cleanup(NewRun(fs))
     IN /\ fs' = r.fs
        /\ last' = Ran("cleanup", fs, tree, <<>>, r)
  /\ UNCHANGED <<tree, ide, codexHome, saves>>

\* OpenCodeSetup.setup(projectDir, beatDir, options)
OpenCodeSetup(setup(_, _, _)) ==
  /\ ide = "opencode"
  /\ \E sel \in SelectedModules :
       LET r == setup(fs, tree, sel)
       IN /\ fs' = r.fs
          /\ last' = Ran("setup", fs, tree, sel, r)
  /\ UNCHANGED <<tree, ide, codexHome, saves>>

\* OpenCodeSetup.cleanup(projectDir)
OpenCodeCleanup(cleanup(_)) ==
  /\ ide = "opencode"
  /\ LET r == cleanup(NewRun(fs))
     IN /\ fs' = r.fs
        /\ last' = Ran("cleanup", fs, tree, <<>>, r)
  /\ UNCHANGED <<tree, ide, codexHome, saves>>

\* CodexSetup.setup(projectDir, beatDir, options)
CodexSetup(setup(_, _, _)) ==
  /\ ide = "codex"
  /\ \E sel \in SelectedModules :
       LET r == setup(fs, tree, sel)
       IN /\ fs' = r.fs
          /\ last' = Ran("setup", fs, tree, sel, r)
  /\ UNCHANGED <<tree, ide, codexHome, saves>>

\* CodexSetup.cleanup(projectDir)
CodexCleanup(cleanup(_)) ==
  /\ ide = "codex"
  /\ LET r == cleanup(NewRun(fs))
     IN /\ fs' = r.fs
        /\ last' = Ran("cleanup", fs, tree, <<>>, r)
  /\ UNCHANGED <<tree, ide, codexHome, saves>>

\* ClineSetup.setup(projectDir, beatDir, options)
ClineSetup(setup(_, _, _)) ==
  /\ ide = "cline"
  /\ \E sel \in SelectedModules :
       LET r == setup(fs, tree, sel)
       IN /\ fs' = r.fs
          /\ last' = Ran("setup", fs, tree, sel, r)
  /\ UNCHANGED <<tree, ide, codexHome, saves>>

\* ClineSetup.cleanup(projectDir)
ClineCleanup(cleanup(_)) ==
  /\ ide = "cline"
  /\ LET r == cleanup(NewRun(fs))
     IN /\ fs' = r.fs
        /\ last' = Ran("cleanup", fs, tree, <<>>, r)
  /\ UNCHANGED <<tree, ide, codexHome, saves>>

\* WindsurfSetup.setup(projectDir, beatDir, options)
WindsurfSetup(setup(_, _, _)) ==
  /\ ide = "windsurf"
  /\ \E sel \in SelectedModules :
       LET r == setup(fs, tree, sel)
       IN /\ fs' = r.fs
          /\ last' = Ran("setup", fs, tree, sel, r)
  /\ UNCHANGED <<tree, ide, codexHome, saves>>

\* WindsurfSetup.cleanup(projectDir)
WindsurfCleanup(cleanup(_)) ==
  /\ ide = "windsurf"
  /\ LET r == cleanup(NewRun(fs))
     IN /\ fs' = r.fs
        /\ last' = Ran("cleanup", fs, tree, <<>>, r)
  /\ UNCHANGED <<tree, ide, codexHome, saves>>

\* CursorSetup.setup(projectDir, beatDir, options)
CursorSetup(setup(_, _, _)) ==
  /\ ide = "cursor"
  /\ \E sel \in SelectedModules :
       LET r == setup(fs, tree, sel)
       IN /\ fs' = r.fs
          /\ last' = Ran("setup", fs, tree, sel, r)
  /\ UNCHANGED <<tree, ide, codexHome, saves>>

\* CursorSetup.cleanup(projectDir)
CursorCleanup(cleanup(_)) ==
  /\ ide = "cursor"
  /\ LET r == cleanup(NewRun(fs))
     IN /\ fs' = r.fs
        /\ last' = Ran("cleanup", fs, tree, <<>>, r)
  /\ UNCHANGED <<tree, ide, codexHome, saves>>

\* AuggieSetup.setup(projectDir, beatDir, options)
AuggieSetup(setup(_, _, _)) ==
  /\ ide = "auggie"
  /\ \E sel \in SelectedModules :
       LET r == setup(fs, tree, sel)
       IN /\ fs' = r.fs
          /\ last' = Ran("setup", fs, tree, sel, r)
  /\ UNCHANGED <<tree, ide, codexHome, saves>>

\* AuggieSetup.cleanup(projectDir)
AuggieCleanup(cleanup(_)) ==
  /\ ide = "auggie"
  /\ LET r == cleanup(NewRun(fs))
     IN /\ fs' = r.fs
        /\ last' = Ran("cleanup", fs, tree, <<>>, r)
  /\ UNCHANGED <<tree, ide, codexHome, saves>>

\* IFlowSetup.setup(projectDir, beatDir, options)
IFlowSetup(setup(_, _, _)) ==
  /\ ide = "iflow"
  /\ \E sel \in SelectedModules :
       LET r == setup(fs, tree, sel)
       IN /\ fs' = r.fs
          /\ last' = Ran("setup", fs, tree, sel, r)
  /\ UNCHANGED <<tree, ide, codexHome, saves>>

\* IFlowSetup.cleanup(projectDir)
IFlowCleanup(cleanup(_)) ==
  /\ ide = "iflow"
  /\ LET r == cleanup(NewRun(fs))
     IN /\ fs' = r.fs
        /\ last' = Ran("cleanup", fs, tree, <<>>, r)
  /\ UNCHANGED <<tree, ide, codexHome, saves>>

\* QwenSetup.setup(projectDir, beatDir, options)
QwenSetup(setup(_, _, _)) ==
  /\ ide = "qwen"
  /\ \E sel \in SelectedModules :
       LET r == setup(fs, tree, sel)
       IN /\ fs' = r.fs
          /\ last' = Ran("setup", fs, tree, sel, r)
  /\ UNCHANGED <<tree, ide, codexHome, saves>>

\* QwenSetup.cleanup(projectDir)
QwenCleanup(cleanup(_)) ==
  /\ ide = "qwen"
  /\ LET r == cleanup(NewRun(fs))
     IN /\ fs' = r.fs
        /\ last' = Ran("cleanup", fs, tree, <<>>, r)
  /\ UNCHANGED <<tree, ide, codexHome, saves>>

\* the content tree changes between two installs (an update of the installation)
EditTree ==
  /\ tree' \in Trees \ {tree}
  /\ UNCHANGED <<fs, ide, last, codexHome, saves>>

Next ==
  \/ TraeSetup(TraeSetup_setup) \/ TraeCleanup(TraeSetup_cleanup)
  \/ OpenCodeSetup(OpenCodeSetup_setup) \/ OpenCodeCleanup(OpenCodeSetup_cleanup)
  \/ CodexSetup(CodexSetup_setup) \/ CodexCleanup(CodexSetup_cleanup)
  \/ ClineSetup(ClineSetup_setup) \/ ClineCleanup(ClineSetup_cleanup)
  \/ WindsurfSetup(WindsurfSetup_setup) \/ WindsurfCleanup(WindsurfSetup_cleanup)
  \/ CursorSetup(CursorSetup_setup) \/ CursorCleanup(CursorSetup_cleanup)
  \/ AuggieSetup(AuggieSetup_setup) \/ AuggieCleanup(AuggieSetup_cleanup)
  \/ IFlowSetup(IFlowSetup_setup) \/ IFlowCleanup(IFlowSetup_cleanup)
  \/ QwenSetup(QwenSetup_setup) \/ QwenCleanup(QwenSetup_cleanup)
  \/ EditTree

Spec == Init /\ [][Next]_vars

(***************************************************************************)
(* The configuration store as a state machine                              *)
(***************************************************************************)

\* the record kept of a call of the manager: the method, its arguments, what it
\* returned, whether it threw and the steps it took on the file system
Called(op, ideName, arg, now, ret, err, log) ==
  [op |-> op, ide |-> ideName, arg |-> arg, now |-> now, ret |-> ret, err |-> err,
   log |-> log]

ConfigInit ==
  /\ fs \in {InstalledFs, NotesFs}
  /\ tree = <<>>
  /\ ide = "none"
  /\ codexHome = <<>>
  /\ last = Called("none", <<>>, Undefined, 0, Undefined, FALSE, <<>>)
  /\ saves = [n \in IdeNames |-> <<>>]

\* saveIdeConfig(beatDir, ideName, configuration), with the clock at any reading
SaveIdeConfig(save(_, _, _, _)) ==
  \E ideName \in IdeNames, configuration \in Configurations, now \in Times :
    LET r == save(fs, ideName, configuration, toISOString(now))
    IN /\ fs' = r.fs
       /\ last' = Called("save", ideName, configuration, now, Undefined, r.err, r.log)
       /\ saves' = IF r.err THEN saves
                   ELSE [saves EXCEPT ![ideName] =
                           <<IF @ = <<>> THEN now ELSE @[1], now, configuration>>]
       /\ UNCHANGED <<tree, ide, codexHome>>

\* loadIdeConfig(beatDir, ideName)
LoadIdeConfig(load(_, _)) ==
  \E ideName \in IdeNames :
    /\ last' = Called("load", ideName, Undefined, 0, load(fs, ideName), FALSE, <<>>)
    /\ UNCHANGED <<fs, tree, ide, codexHome, saves>>

\* loadAllIdeConfigs(beatDir)
LoadAllIdeConfigs(loadAll(_)) ==
  /\ last' = Called("loadAll", <<>>, Undefined, 0, loadAll(fs), FALSE, <<>>)
  /\ UNCHANGED <<fs, tree, ide, codexHome, saves>>

\* hasIdeConfig(beatDir, ideName)
HasIdeConfig(has(_, _)) ==
  \E ideName \in IdeNames :
    /\ last' = Called("has", ideName, Undefined, 0, Bool(has(fs, ideName)), FALSE, <<>>)
    /\ UNCHANGED <<fs, tree, ide, codexHome, saves>>

\* deleteIdeConfig(beatDir, ideName)
DeleteIdeConfig(delete(_, _)) ==
  \E ideName \in IdeNames :
    LET r == delete(fs, ideName)
    IN /\ fs' = r.fs
       /\ last' = Called("delete", ideName, Undefined, 0, Undefined, r.err, r.log)
       /\ saves' = IF r.err THEN saves ELSE [saves EXCEPT ![ideName] = <<>>]
       /\ UNCHANGED <<tree, ide, codexHome>>

\* somebody else replaces an IDE's config file
EditConfigFile ==
  \E ideName \in IdeNames, node \in HandEdited :
    /\ pathExists(fs, getIdeConfigDir(beatDir))
    /\ fs' = [q \in DOMAIN fs \cup {getIdeConfigPath(beatDir, ideName)} |->
                IF q = getIdeConfigPath(beatDir, ideName) THEN node ELSE fs[q]]
    /\ last' = Called("edit", ideName, Undefined, 0, Undefined, FALSE, <<>>)
    /\ saves' = [saves EXCEPT ![ideName] = <<>>]
    /\ UNCHANGED <<tree, ide, codexHome>>

ConfigNext ==
  \/ SaveIdeConfig(saveIdeConfig) \/ LoadIdeConfig(loadIdeConfig)
  \/ LoadAllIdeConfigs(loadAllIdeConfigs) \/ HasIdeConfig(hasIdeConfig)
  \/ DeleteIdeConfig(deleteIdeConfig) \/ EditConfigFile

ConfigSpec == ConfigInit /\ [][ConfigNext]_vars

(***************************************************************************)
(* QwenSetup.updateSettings over the settings files a project may hold     *)
(***************************************************************************)

\* the longest contextFileName array of the model
MaxContextFiles == 3

\* entries of contextFileName: old agent references, a file of the user, a
\* path that holds 'agents/' without starting with it, and an entry that is no string
ContextFileNames == {JsonNull, <<"a","g","e","n","t","s","/","d","e","v",".","m","d">>, <<"b","e","a","t","-","m","e","t","h","o","d","/","x",".","m","d">>, <<"Q","W","E","N",".","m","d">>, <<"m","y","/","a","g","e","n","t","s","/","a",".","m","d">>}

\* the parsed settings.json: no JSON, JSON whose contextFileName is no array (it is
\* missing, or one name), and JSON with an array of up to MaxContextFiles names
SettingsValues ==
  {[json |-> FALSE, isArray |-> FALSE, contextFileName |-> <<>>, theme |-> <<>>, indent |-> 0],
   [json |-> TRUE, isArray |-> FALSE, contextFileName |-> <<>>, theme |-> <<"d","a","r","k">>, indent |-> 4]}
  \cup {[json |-> TRUE, isArray |-> TRUE, contextFileName |-> names, theme |-> <<"d","a","r","k">>,
         indent |-> i] :
          names \in UNION {[1..n -> ContextFileNames] : n \in 0..MaxContextFiles}, i \in {2, 4}}

\* the projects updateSettings may find: no .qwen/settings.json, or one of the
\* settings files, which the process may or may not overwrite
SettingsFs ==
  {fsEnsureDir(EmptyFs, QwenDir)}
  \cup {[q \in DOMAIN fsEnsureDir(EmptyFs, QwenDir) \cup {QwenSettingsPath} |->
           IF q = QwenSettingsPath THEN [type |-> "file", content |-> v, mode |-> m]
           ELSE fsEnsureDir(EmptyFs, QwenDir)[q]] :
          v \in SettingsValues, m \in {"rw", "ro"}}

SettingsInit ==
  /\ fs \in SettingsFs
  /\ tree = <<>>
  /\ ide = "qwen"
  /\ codexHome = <<>>
  /\ saves = <<>>
  /\ last = Ran("none", fs, <<>>, <<>>, NewRun(fs))

\* QwenSetup.updateSettings(qwenDir)
UpdateSettings(updateSettings(_)) ==
  /\ LET r == updateSettings(NewRun(fs))
     IN /\ fs' = r.fs
        /\ last' = Ran("updateSettings", fs, <<>>, <<>>, r)
  /\ UNCHANGED <<tree, ide, codexHome, saves>>

SettingsNext == UpdateSettings(QwenSetup_updateSettings)

SettingsSpec == SettingsInit /\ [][SettingsNext]_vars

(***************************************************************************)
(* Codex and Cline over content trees with a file that cannot be read      *)
(***************************************************************************)

\* the developer's installation with a task of core that the process may not read
TreeUnreadable ==
  TreeDev \o <<[path |-> <<CoreModule, TasksDirName, <<"l","o","c","k","e","d",".","m","d">>>>, content |-> Unreadable]>>

\* the same with the unreadable task in module x, which is read only when x is selected
TreeUnreadableX ==
  TreeDev \o <<[path |-> <<<<"x">>, TasksDirName, <<"l","o","c","k","e","d",".","m","d">>>>, content |-> Unreadable]>>

SourceTrees == {TreeDev, TreeFull, TreeUnreadable, TreeUnreadableX}

CollectInit ==
  /\ fs \in InitialFs
  /\ tree \in SourceTrees
  /\ ide \in {"codex", "cline"}
  /\ codexHome = <<>>
  /\ saves = <<>>
  /\ last = Ran("none", fs, tree, <<>>, NewRun(fs))

\* a source file loses or regains its read permission, or the installation changes
EditSources ==
  /\ tree' \in SourceTrees \ {tree}
  /\ UNCHANGED <<fs, ide, last, codexHome, saves>>

CollectNext ==
  \/ CodexSetup(CodexSetup_setup) \/ CodexCleanup(CodexSetup_cleanup)
  \/ ClineSetup(ClineSetup_setup) \/ ClineCleanup(ClineSetup_cleanup)
  \/ EditSources

CollectSpec == CollectInit /\ [][CollectNext]_vars

(***************************************************************************)
(* processContent of Cursor and of Qwen over the contents of source files  *)
(***************************************************************************)

\* the longest content of the model, in fragments
MaxParts == 3

\* fragments of a source file: the markers the probes look for, a title and a
\* name attribute, and a title attribute without a value
ContentParts ==
  {<<"<","a","g","e","n","t">>, <<"<","t","a","s","k">>, <<"<","t","o","o","l">>, <<"w","o","r","k","f","l","o","w",":">>, <<"n","a","m","e",":">>, <<" ","t","i","t","l","e","=","\"","T","\"">>, <<" ","n","a","m","e","=","\"","N","\"">>, <<" ","t","i","t","l","e","=","\"","\"">>}

\* the fragments of parts one after the other
RECURSIVE ConcatParts(_)
ConcatParts(parts) ==
  IF Len(parts) = 0 THEN <<>> ELSE Head(parts) \o ConcatParts(Tail(parts))

\* the contents processContent is given
Contents ==
  {ConcatParts(parts) : parts \in UNION {[1..n -> ContentParts] : n \in 0..MaxParts}}

\* the metadata processContent is given
Metadatas ==
  {[module |-> <<"b","m","m">>, name |-> <<"d","e","v","-","s","t","o","r","y">>], [module |-> CoreModule, name |-> <<"p","m">>]}

\* what is known of a call processContent(content, metadata) of the two classes:
\* the arguments and, once a class has been called, what it returned
DescribeInit ==
  /\ fs = EmptyFs
  /\ tree = <<>>
  /\ ide = "none"
  /\ codexHome = <<>>
  /\ saves = <<>>
  /\ \E c \in Contents, m \in Metadatas :
       last = [op |-> "none", content |-> c, metadata |-> m,
               cursorDone |-> FALSE, cursor |-> <<>>, qwenDone |-> FALSE, qwen |-> <<>>]

\* CursorSetup.processContent(content, metadata)
CursorProcessContent(processContent(_, _)) ==
  /\ ~last.cursorDone
  /\ last' = [last EXCEPT !.op = "processContent", !.cursorDone = TRUE,
                          !.cursor = processContent(last.content, last.metadata)]
  /\ UNCHANGED <<fs, tree, ide, codexHome, saves>>

\* QwenSetup.processContent(content, metadata)
QwenProcessContent(processContent(_, _)) ==
  /\ ~last.qwenDone
  /\ last' = [last EXCEPT !.op = "processContent", !.qwenDone = TRUE,
                          !.qwen = processContent(last.content, last.metadata)]
  /\ UNCHANGED <<fs, tree, ide, codexHome, saves>>

DescribeNext ==
  \/ CursorProcessContent(Cursor_processContent)
  \/ QwenProcessContent(Qwen_processContent)

DescribeSpec == DescribeInit /\ [][DescribeNext]_vars

(***************************************************************************)
(* Properties                                                              *)
(***************************************************************************)

\* the handler of adapter a, by its key
SetupOf(a, f, t, sel) ==
  CASE a = "trae"     -> TraeSetup_setup(f, t, sel)
    [] a = "opencode" -> OpenCodeSetup_setup(f, t, sel)
    [] a = "codex"    -> CodexSetup_setup(f, t, sel)
    [] a = "cline"    -> ClineSetup_setup(f, t, sel)
    [] a = "windsurf" -> WindsurfSetup_setup(f, t, sel)
    [] a = "cursor"   -> CursorSetup_setup(f, t, sel)
    [] a = "auggie"   -> AuggieSetup_setup(f, t, sel)
    [] a = "iflow"    -> IFlowSetup_setup(f, t, sel)
    [] a = "qwen"     -> QwenSetup_setup(f, t, sel)

\* the entries directly under d before the last handler ran
EntriesBefore(d) == readdir(last.pre, d)

\* p and everything below it is now as it was before the last handler ran
Untouched(p) ==
  \A q \in DOMAIN last.pre : IsUnder(q, p) => (q \in DOMAIN fs /\ fs[q] = last.pre[q])

\* a cleanup has run, on its own or as a step of setup
CleanupRan == last.op \in {"setup", "cleanup"}

\* C1: after a cleanup of a prefix-scoped adapter (Trae, OpenCode, Codex, Cline),
\* on its own or inside setup, every entry of the destination directory whose
\* name does not start with 'beat-' is still there, unchanged.
C1_UnmarkedEntriesSurvive ==
  (ide \in PrefixIdes /\ CleanupRan) =>
    \A d \in PrefixDirs(ide) :
      \A n \in EntriesBefore(d) : ~StartsWith(n, BeatPrefix) => Untouched(d \o <<n>>)

\* C1 witness: a prefix-scoped cleanup ran on a directory that held unmarked
\* entries (among them beatnik.md) and a marked one, which it removed
C1_Witness ==
  /\ ide \in PrefixIdes /\ last.op = "cleanup"
  /\ \E d \in PrefixDirs(ide) :
       /\ <<"b","e","a","t","n","i","k",".","m","d">> \in EntriesBefore(d)
       /\ <<"b","e","a","t","n","i","k",".","m","d">> \in readdir(fs, d)
       /\ \E n \in EntriesBefore(d) : StartsWith(n, BeatPrefix) /\ n \notin readdir(fs, d)

\* a path below the IDE's config directory carries the marker 'beat' in a name
HasBeatMarker(a, q) ==
  \E k \in (Len(ConfigDir(a)) + 1)..Len(q) : Includes(q[k], <<"b","e","a","t">>)

\* C2: setup and cleanup of an owned-subdirectory adapter (Windsurf, Cursor,
\* Auggie, iFlow, Qwen) leave every file and directory under the IDE's config
\* directory that is outside the owned 'beat' subdirectory and carries no 'beat'
\* marker in its name, such as a user's .qwen/agents, as it was.
C2_OutsideOwnedDirSurvives ==
  (ide \in OwnedDirIdes /\ CleanupRan) =>
    \A q \in DOMAIN last.pre :
      (/\ IsUnder(q, ConfigDir(ide))
       /\ ~IsUnder(q, OwnedDir(ide))
       /\ ~HasBeatMarker(ide, q))
      => (q \in DOMAIN fs /\ fs[q] = last.pre[q])

C4_NoStaleArtifact ==
  [][(last.op = "setup" /\ last'.op = "setup" /\ tree' = tree /\ ~last'.err) =>
       \A p \in WrittenPaths(last.written) :
         p \in DOMAIN fs' => p \in WrittenPaths(last'.written)]_vars

\* C5: running setup again with the same content tree and the same modules
\* leaves the destination as the first run left it.
C5_SetupTwiceIsSetupOnce ==
  (last.op = "setup" /\ ~last.err) =>
    LET again == SetupOf(ide, fs, last.tree, last.sel)
    IN ~again.err /\ again.fs = fs

\* C5 witness: a setup has written files over a destination that held entries it
\* removed
C5_Witness ==
  /\ last.op = "setup" /\ ~last.err
  /\ Len(last.written) > 1
  /\ \E p \in DOMAIN last.pre : p \notin DOMAIN fs

\* the artifact a written file renders
Identity(o) == <<o.module, o.kind, o.name>>

\* C6: under one adapter, two artifacts that differ in module, kind or name are
\* never written to the same destination path.
C6_NoCollision ==
  last.op = "setup" =>
    \A i, j \in 1..Len(last.written) :
      Identity(last.written[i]) # Identity(last.written[j])
        => last.written[i].path # last.written[j].path

\* the kind of a written file as the word of a file name
KindWord(kind) ==
  CASE kind = "agent"    -> <<"a","g","e","n","t">>
    [] kind = "task"     -> <<"t","a","s","k">>
    [] kind = "tool"     -> <<"t","o","o","l">>
    [] kind = "workflow" -> <<"w","o","r","k","f","l","o","w">>

\* the directory of a kind: the kind in the plural
KindDir(kind) == KindWord(kind) \o <<"s">>

\* the extension of the adapters that nest their files
NestedExt(a) ==
  CASE a = "cursor" -> <<".","m","d","c">> [] a = "windsurf" -> <<".","m","d">> [] a = "qwen" -> <<".","t","o","m","l">>

\* the directory a flat-naming adapter writes the file o into
FlatRoot(a, o) ==
  CASE a = "trae"     -> TraeRulesDir
    [] a = "opencode" -> IF o.kind = "agent" THEN OpenCodeAgentsDir ELSE OpenCodeCommandsDir
    [] a = "codex"    -> getCodexPromptDir
    [] a = "cline"    -> ClineWorkflowsDir

\* the files of the last setup that render an artifact (Cursor's index.mdc does not)
ArtifactFiles == SelectSeq(last.written, LAMBDA o : o.kind # "index")

OnlyDevInstalled ==
  /\ ide \in PrefixIdes /\ last.op = "setup" /\ ~last.err
  /\ last.tree = TreeDev /\ last.sel = <<>>

RenderedFrom(o) ==
  IF o.kind = "agent"
    THEN generateLauncherContent([name |-> o.name, module |-> o.module])
    ELSE readFile(last.tree, beatDir \o <<o.module, KindDir(o.kind), o.name \o MdExt>>)

\* none of the recognised title patterns matches
NoTitlePattern(content) ==
  /\ MatchTitleAttr(content) = <<>>
  /\ MatchNameAttr(content) = <<>>
  /\ MatchNameElement(content) = <<>>
  /\ MatchDescriptionField(content) = <<>>

\* the renderer gives the file o a title (iFlow and Auggie write an agent's
\* launcher as it is, without a title of their own)
HasTitle(o) == ~(o.kind = "agent" /\ ide \in {"iflow", "auggie"})

\* C9: when the content of an artifact matches none of the title patterns, the
\* file rendered for it by Qwen, Cursor, Trae, iFlow or Auggie carries a non-empty
\* title, the title-cased name of the artifact ('dev-story' gives 'Dev Story').
C9_FallbackIsTitleCasedName ==
  (last.op = "setup" /\ ide \in {"qwen", "cursor", "trae", "iflow", "auggie"}) =>
    \A i \in 1..Len(ArtifactFiles) :
      LET o == ArtifactFiles[i]
      IN (HasTitle(o) /\ NoTitlePattern(RenderedFrom(o))) =>
           /\ formatTitle(o.name) # <<>>
           /\ Includes(o.content, formatTitle(o.name))

\* the (destination path, content) pairs of a run
Pairs(written) == {<<written[i].path, written[i].content>> : i \in 1..Len(written)}

CustomizeMarker == <<".","c","u","s","t","o","m","i","z","e",".">>

\* the local-skip marker of a file's content
LocalSkipMarker == <<"l","o","c","a","l","s","k","i","p","=","\"","t","r","u","e","\"">>

\* the records getAgentsFromBeat and getTasksFromBeat return for the last setup
CollectedRecords ==
  LET a == getAgentsFromBeat(last.tree, last.sel)
      k == getTasksFromBeat(last.tree, last.sel)
  IN {a[i] : i \in 1..Len(a)} \cup {k[i] : i \in 1..Len(k)}

\* C11: no record the collectors return, agent or task, has a file name that
\* contains '.customize.' or a content that contains 'localskip="true"'.
C11_NoExcludedFileCollected ==
  last.op = "setup" =>
    \A rec \in CollectedRecords :
      /\ ~Includes(Basename(rec.path), CustomizeMarker)
      /\ ~Includes(readFile(last.tree, rec.path), LocalSkipMarker)

\* no two records of a collector's result are the same artifact or the same file
NoDuplicate(recs) ==
  \A i, j \in 1..Len(recs) :
    i # j => /\ <<recs[i].module, recs[i].name>> # <<recs[j].module, recs[j].name>>
             /\ recs[i].path # recs[j].path

\* C12: whatever the content tree and the selected modules (a list may name
\* 'core'), getAgentsFromBeat and getTasksFromBeat return no two records with
\* the same (module, name) and no source file twice.
C12_NoArtifactTwice ==
  last.op = "setup" =>
    /\ NoDuplicate(getAgentsFromBeat(last.tree, last.sel))
    /\ NoDuplicate(getTasksFromBeat(last.tree, last.sel))

\* C13: when the content root or its core/agents or core/tasks directory is
\* missing, setup does not return success.
C13_MissingInstallationIsFatal ==
  (/\ last.op = "setup"
   /\ \/ ~TreeDirExists(last.tree, <<CoreModule, AgentsDirName>>)
      \/ ~TreeDirExists(last.tree, <<CoreModule, TasksDirName>>))
  => last.err

\* the selected modules that have the directory kindDir in the content tree
PresentModules(t, sel, kindDir) ==
  SelectSeq(sel, LAMBDA mod : TreeDirExists(t, <<mod, kindDir>>))

\* a selected module of the last setup has no agents directory
ModuleDirMissing ==
  /\ last.op = "setup"
  /\ PresentModules(last.tree, last.sel, AgentsDirName) # last.sel

\* C14: a selected module without an agents or tasks directory contributes
\* nothing and stops nothing: the collectors return what they return for the
\* selected modules that have the directory, the agents of core among it, and a
\* setup that returned normally has written a file for every agent of core.
C14_MissingModuleIsEmpty ==
  ModuleDirMissing =>
    /\ getAgentsFromBeat(last.tree, last.sel)
         = getAgentsFromBeat(last.tree, PresentModules(last.tree, last.sel, AgentsDirName))
    /\ getTasksFromBeat(last.tree, last.sel)
         = getTasksFromBeat(last.tree, PresentModules(last.tree, last.sel, TasksDirName))
    /\ LET core == getAgentsFromDir(last.tree, <<CoreModule, AgentsDirName>>, CoreModule)
       IN \A i \in 1..Len(core) :
            /\ \E j \in 1..Len(getAgentsFromBeat(last.tree, last.sel)) :
                 getAgentsFromBeat(last.tree, last.sel)[j] = core[i]
            /\ ~last.err =>
                 \E k \in 1..Len(last.written) :
                   /\ last.written[k].kind = "agent"
                   /\ last.written[k].module = CoreModule
                   /\ last.written[k].name = core[i].name

\* C14 witness: a setup with the modules x and core selected, over an installation
\* that has core/agents but no x/agents, has written the agent of core
C14_Witness ==
  /\ ModuleDirMissing /\ ~last.err
  /\ ~TreeDirExists(last.tree, <<Head(last.sel), AgentsDirName>>)
  /\ TreeDirExists(last.tree, <<last.sel[2], AgentsDirName>>)
  /\ Len(last.written) > 0

\* the steps of the last handler that issue a delete
DeleteSteps == {i \in 1..Len(last.log) : last.log[i] \in {"remove", "removeFailed"}}

\* C15: within a setup no delete of a destination entry is issued before the
\* collection is complete: no scan or read of the content tree follows a delete.
C15_CollectionBeforeCleanup ==
  last.op = "setup" =>
    \A i \in DeleteSteps : \A j \in (i + 1)..Len(last.log) : last.log[j] # "collect"

\* the part of the destination adapter a writes to and deletes from
Area(a) == IF a \in PrefixIdes THEN PrefixDirs(a) ELSE {ConfigDir(a)}

\* C16: a delete that fails during the cleanup step of a setup ends the setup: it
\* is the last step taken, setup has thrown, no file is written after it, and what
\* the other adapters keep in their directories is as it was.
C16_FailedDeleteAborts ==
  last.op = "setup" =>
    \A i \in 1..Len(last.log) :
      last.log[i] = "removeFailed" =>
        /\ last.err
        /\ i = Len(last.log)
        /\ \A b \in Ides \ {ide} : \A d \in Area(b) : Untouched(d)

\* C16 witness: a setup has stopped at a delete that failed, in a destination
\* that holds files it would have removed and a content tree it would have installed
C16_Witness ==
  /\ last.op = "setup" /\ last.err
  /\ Len(last.log) > 0 /\ last.log[Len(last.log)] = "removeFailed"
  /\ Len(last.tree) > 0
  /\ last.written = <<>>
  /\ fs = last.pre

\* the cleanup handler of adapter a, by its key
CleanupOf(a, f) ==
  CASE a = "trae"     -> TraeSetup_cleanup(NewRun(f))
    [] a = "opencode" -> OpenCodeSetup_cleanup(NewRun(f))
    [] a = "codex"    -> CodexSetup_cleanup(NewRun(f))
    [] a = "cline"    -> ClineSetup_cleanup(NewRun(f))
    [] a = "windsurf" -> WindsurfSetup_cleanup(NewRun(f))
    [] a = "cursor"   -> CursorSetup_cleanup(NewRun(f))
    [] a = "auggie"   -> AuggieSetup_cleanup(NewRun(f))
    [] a = "iflow"    -> IFlowSetup_cleanup(NewRun(f))
    [] a = "qwen"     -> QwenSetup_cleanup(NewRun(f))

\* the paths created, changed or deleted between two file systems
Touched(pre, post) ==
  {q \in DOMAIN pre \cup DOMAIN post :
     q \notin DOMAIN pre \/ q \notin DOMAIN post \/ pre[q] # post[q]}

\* C17: from each initial destination, the paths a setup of one adapter has
\* written or deleted are none of those that the setup or the cleanup of another
\* adapter writes or deletes, and running the two setups in either order gives
\* the same file system.
C17_AdaptersAreDisjoint ==
  (last.op = "setup" /\ last.pre \in InitialFs) =>
    \A b \in Ides \ {ide} :
      LET mine   == Touched(last.pre, fs)
          other  == SetupOf(b, last.pre, last.tree, last.sel).fs
      IN /\ mine \cap Touched(last.pre, other) = {}
         /\ mine \cap Touched(last.pre, CleanupOf(b, last.pre).fs) = {}
         /\ SetupOf(b, fs, last.tree, last.sel).fs
              = SetupOf(ide, other, last.tree, last.sel).fs

\* C17 witness: a setup has removed and written files in a destination where the
\* setup of another adapter removes and writes files too
C17_Witness ==
  /\ last.op = "setup" /\ ~last.err /\ last.pre \in InitialFs
  /\ Len(last.written) > 0
  /\ \E q \in DOMAIN last.pre : q \notin DOMAIN fs
  /\ \E b \in Ides \ {ide} :
       LET other == SetupOf(b, last.pre, last.tree, last.sel)
       IN /\ Len(other.written) > 0
          /\ \E q \in DOMAIN last.pre : q \notin DOMAIN other.fs

\* $CODEX_HOME/prompts
CodexHomePrompts == codexHome \o <<<<"p","r","o","m","p","t","s">>>>

\* C18: when CODEX_HOME is set, Codex's setup writes its prompts into
\* $CODEX_HOME/prompts, its cleanup deletes there and detect reads there: the
\* files setup wrote lie in that directory, and detect finds an installation
\* only if that directory holds an entry 'beat-...'.
C18_CodexHomeIsUsed ==
  (ide = "codex" /\ codexHome # <<>> /\ last.op \in {"setup", "cleanup"}) =>
    /\ \A p \in WrittenPaths(last.written) : Dirname(p) = CodexHomePrompts
    /\ \A q \in Touched(last.pre, fs) : IsUnder(q, CodexHomePrompts)
    /\ CodexSetup_detect(fs) =>
         \E entry \in readdir(fs, CodexHomePrompts) : StartsWith(entry, BeatPrefix)

\* the MDC header of a rule file: its frontmatter
MdcHeader(content) == SubSeq(content, 1, FrontmatterEnd(content))

\* C19: every file CursorSetup.setup writes under .cursor/rules/beat, index.mdc
\* included, is a Manual rule: its MDC header has 'alwaysApply: false'.
C19_CursorRulesAreManual ==
  (ide = "cursor" /\ last.op = "setup") =>
    \A i \in 1..Len(last.written) :
      Includes(MdcHeader(last.written[i].content), <<"a","l","w","a","y","s","A","p","p","l","y",":"," ","f","a","l","s","e">>)

\* a directory on the way to .cursor/rules/beat that was not there before the last
\* handler ran and is an empty directory entry now
CreatedOnTheWay(q) ==
  /\ IsUnder(CursorBeatRulesDir, q)
  /\ q \notin DOMAIN last.pre
  /\ q \in DOMAIN fs /\ fs[q] = DirNode

\* C20: CursorSetup.setup and CursorSetup.cleanup create, change and delete
\* only paths inside .cursor/rules/beat and, where missing, the directories that
\* lead to it: the user's .cursorrules and every other entry of .cursor/rules
\* are as they were.
C20_CursorTouchesOnlyBeatRules ==
  (ide = "cursor" /\ last.op \in {"setup", "cleanup"}) =>
    \A q \in Touched(last.pre, fs) :
      IsUnder(q, CursorBeatRulesDir) \/ CreatedOnTheWay(q)

\* C20 witness: Cursor's setup has replaced an old file in .cursor/rules/beat by
\* new rules, next to the user's .cursorrules and .cursor/rules/mine.md
C20_Witness ==
  /\ ide = "cursor" /\ last.op = "setup" /\ ~last.err
  /\ CursorRulesFile \in DOMAIN last.pre
  /\ Dirname(CursorBeatRulesDir) \o <<<<"m","i","n","e",".","m","d">>>> \in DOMAIN last.pre
  /\ CursorBeatRulesDir \o <<<<"o","l","d",".","m","d">>>> \in DOMAIN last.pre
  /\ CursorBeatRulesDir \o <<<<"o","l","d",".","m","d">>>> \notin DOMAIN fs
  /\ Len(last.written) > 1

\* C20 as stated: CursorSetup.setup and CursorSetup.cleanup create, change and
\* delete only paths inside .cursor/rules/beat
C20_OnlyInsideBeatRules ==
  (ide = "cursor" /\ last.op \in {"setup", "cleanup"}) =>
    \A q \in Touched(last.pre, fs) : IsUnder(q, CursorBeatRulesDir)

\* agentCount and taskCount of IFlowSetup.setup: one for every command of the kind
\* that was written
IFlow_count(written, kind) ==
  Cardinality({i \in 1..Len(written) : written[i].kind = kind})

\* .iflow/commands/beat/{kindDir}/{module}-{name}.md for every artifact of a list
IFlowCommandPaths(kindDir, items) ==
  {IFlowBeatDir \o <<kindDir, items[i].module \o <<"-">> \o items[i].name \o <<".","m","d">>>> :
     i \in 1..Len(items)}

\* C21: a completed IFlowSetup.setup has written every collected agent to
\* .iflow/commands/beat/agents/{module}-{name}.md and every task to
\* .iflow/commands/beat/tasks/{module}-{name}.md, has written no other file, and
\* returns the numbers of collected agents and tasks as its counts.
C21_IFlowCommandsByType ==
  (ide = "iflow" /\ last.op = "setup" /\ ~last.err) =>
    LET agents == collectAgentArtifacts(last.tree, last.sel)
        tasks  == BaseCollect(last.tree, TasksDirName, FALSE)
        paths  == IFlowCommandPaths(<<"a","g","e","n","t","s">>, agents) \cup IFlowCommandPaths(<<"t","a","s","k","s">>, tasks)
    IN /\ \A p \in paths : p \in DOMAIN fs /\ fs[p].type = "file"
       /\ WrittenPaths(last.written) = paths
       /\ \A q \in Touched(last.pre, fs) : fs[q].type = "file" => q \in paths
       /\ IFlow_count(last.written, "agent") = Len(agents)
       /\ IFlow_count(last.written, "task") = Len(tasks)

\* C21 witness: iFlow's setup has written agent commands and task commands
C21_Witness ==
  /\ ide = "iflow" /\ last.op = "setup" /\ ~last.err
  /\ IFlow_count(last.written, "agent") > 1
  /\ IFlow_count(last.written, "task") > 0

\* the configuration a save of c stores
StoredConfiguration(c) == IF c \in {Null, Undefined} THEN Obj(<<>>) ELSE c

\* C22: from a completed saveIdeConfig(beatDir, ide, c) until the next save,
\* delete or foreign edit of that IDE's file, hasIdeConfig(beatDir, ide) is true and
\* loadIdeConfig(beatDir, ide) is a record whose 'ide' is the name and whose
\* 'configuration' is c, or the empty object when c is null or undefined.
C22_SavedConfigIsLoaded ==
  \A n \in IdeNames :
    saves[n] # <<>> =>
      /\ hasIdeConfig(fs, n)
      /\ Get(loadIdeConfig(fs, n), <<"i","d","e">>) = Str(n)
      /\ Get(loadIdeConfig(fs, n), <<"c","o","n","f","i","g","u","r","a","t","i","o","n">>) = StoredConfiguration(saves[n][3])

\* C22 witness: a configuration with strings and a boolean has just been saved for
\* one IDE while the other IDE has a saved configuration too
C22_Witness ==
  /\ last.op = "save" /\ ~last.err
  /\ last.arg = SomeConfiguration
  /\ \A n \in IdeNames : saves[n] # <<>>
  /\ \E n \in IdeNames : saves[n][3] \in {Null, Undefined}

\* the place of a digit among the digits
DigitValue(c) == CHOOSE k \in 1..Len(Digits) : Digits[k] = c

\* a <= b for two ISO timestamps of the same length, as strings
IsoLeq(a, b) ==
  \/ a = b
  \/ \E i \in 1..Len(a) :
       /\ SubSeq(a, 1, i - 1) = SubSeq(b, 1, i - 1)
       /\ a[i] # b[i]
       /\ DigitValue(a[i]) < DigitValue(b[i])

\* the IDE has a config file from which no configured_date can be taken: it
\* cannot be read, is no YAML, is empty or has no such field
NoConfiguredDate(f, n) ==
  /\ hasIdeConfig(f, n)
  /\ ~Truthy(Get(loadIdeConfig(f, n), <<"c","o","n","f","i","g","u","r","e","d","_","d","a","t","e">>))

\* the stored configured_date is the time of the first save and the stored
\* last_updated the time of the latest
DatesFollowSaves(n) ==
  /\ Get(loadIdeConfig(fs, n), <<"c","o","n","f","i","g","u","r","e","d","_","d","a","t","e">>) = Str(toISOString(saves[n][1]))
  /\ Get(loadIdeConfig(fs, n), <<"l","a","s","t","_","u","p","d","a","t","e","d">>) = Str(toISOString(saves[n][2]))

\* this step is a save for an IDE whose file gave no configured_date; it has
\* completed and has set configured_date to the current time
SaveOverBrokenFileSucceeds ==
  (last'.op = "save" /\ NoConfiguredDate(fs, last'.ide)) =>
    /\ ~last'.err
    /\ Get(loadIdeConfig(fs', last'.ide), <<"c","o","n","f","i","g","u","r","e","d","_","d","a","t","e">>) = Str(toISOString(last'.now))

\* the same, except that a file which cannot be written either makes the save
\* throw and stays as it is
SaveOverBrokenFile ==
  (last'.op = "save" /\ NoConfiguredDate(fs, last'.ide)) =>
    IF CanWriteFile(fs, getIdeConfigPath(beatDir, last'.ide))
    THEN /\ ~last'.err
         /\ Get(loadIdeConfig(fs', last'.ide), <<"c","o","n","f","i","g","u","r","e","d","_","d","a","t","e">>) = Str(toISOString(last'.now))
    ELSE last'.err /\ fs' = fs

\* C23 as stated: over the saves for one IDE since its file was last deleted or
\* edited by hand, configured_date is the time of the first save, last_updated
\* the time of the latest and configured_date <= last_updated; a save over a file
\* that is unreadable, unparseable or without configured_date succeeds and sets
\* configured_date to the current time.
C23_AsStated ==
  /\ [](\A n \in IdeNames :
          saves[n] # <<>> =>
            /\ DatesFollowSaves(n)
            /\ IsoLeq(Get(loadIdeConfig(fs, n), <<"c","o","n","f","i","g","u","r","e","d","_","d","a","t","e">>).v,
                      Get(loadIdeConfig(fs, n), <<"l","a","s","t","_","u","p","d","a","t","e","d">>).v))
  /\ [][SaveOverBrokenFileSucceeds]_vars

\* C23: over the saves for one IDE since its file was last deleted or edited by
\* hand, configured_date is the time of the first save and last_updated the time
\* of the latest, and configured_date <= last_updated when the clock has not gone
\* back between the two; a save over a file that is unparseable, empty or without
\* configured_date succeeds and sets configured_date to the current time, and a
\* save over a file the process may neither read nor write throws and leaves it.
C23_ConfiguredDateIsFirstSave ==
  /\ [](\A n \in IdeNames :
          saves[n] # <<>> =>
            /\ DatesFollowSaves(n)
            /\ saves[n][1] <= saves[n][2] =>
                 IsoLeq(Get(loadIdeConfig(fs, n), <<"c","o","n","f","i","g","u","r","e","d","_","d","a","t","e">>).v,
                        Get(loadIdeConfig(fs, n), <<"l","a","s","t","_","u","p","d","a","t","e","d">>).v))
  /\ [][SaveOverBrokenFile]_vars

\* C23 witness: the latest save for an IDE came after its first, and the other
\* IDE's file, which somebody had replaced, has been saved over
C23_Witness ==
  /\ last.op = "save" /\ ~last.err
  /\ \E n \in IdeNames : saves[n] # <<>> /\ saves[n][1] < saves[n][2]
  /\ \E n \in IdeNames : saves[n] # <<>> /\ saves[n][1] = saves[n][2]

\* the names with a '.yaml' file in the configuration directory: the file names
\* without that suffix
StoredIdeNames(f) ==
  {SubSeq(file, 1, Len(file) - 5) :
     file \in {x \in readdir(f, getIdeConfigDir(beatDir)) : EndsWith(x, <<".","y","a","m","l">>)}}

\* C24: loadIdeConfig returns null when the IDE's config file does not exist, cannot
\* be read or is no YAML; loadAllIdeConfigs returns an empty map when the
\* configuration directory is missing and otherwise maps exactly the names whose
\* '.yaml' file loads to a record to that record's 'configuration'.
C24_LoadAllMapsEveryStoredIde ==
  /\ \A n \in IdeNames :
       \/ /\ hasIdeConfig(fs, n)
          /\ CanReadFile(fs, getIdeConfigPath(beatDir, n))
          /\ yamlLoad(fs[getIdeConfigPath(beatDir, n)].content).ok
       \/ loadIdeConfig(fs, n) = Null
  /\ IF ~pathExists(fs, getIdeConfigDir(beatDir)) THEN loadAllIdeConfigs(fs) = {}
     ELSE loadAllIdeConfigs(fs) =
            {[k |-> n, v |-> Get(loadIdeConfig(fs, n), <<"c","o","n","f","i","g","u","r","a","t","i","o","n">>)] :
               n \in {m \in StoredIdeNames(fs) : loadIdeConfig(fs, m).t = "object"}}

\* the entry at p is the same in f and g: absent in both, or the same node
SameEntry(f, g, p) ==
  IF p \in DOMAIN f THEN p \in DOMAIN g /\ g[p] = f[p] ELSE p \notin DOMAIN g

\* C25: a save or delete for one IDE leaves the config file of every other IDE,
\* and everything else but the configuration directory a save creates, as it
\* was; after a delete
\* hasIdeConfig is false and loadIdeConfig is null; a delete for an IDE without a
\* config file changes nothing and raises no error; the save that follows a
\* delete sets configured_date to its own time.
C25_OtherIdesUntouched ==
  [][last'.op \in {"save", "delete"} =>
       /\ \A p \in DOMAIN fs \cup DOMAIN fs' :
            p \notin {getIdeConfigPath(beatDir, last'.ide), getIdeConfigDir(beatDir),
                      Dirname(getIdeConfigDir(beatDir))}
              => SameEntry(fs, fs', p)
       /\ last'.op = "delete" =>
            /\ ~last'.err
            /\ ~hasIdeConfig(fs', last'.ide)
            /\ loadIdeConfig(fs', last'.ide) = Null
            /\ ~hasIdeConfig(fs, last'.ide) => fs' = fs
       /\ (last'.op = "save" /\ ~last'.err /\ ~hasIdeConfig(fs, last'.ide)) =>
            Get(loadIdeConfig(fs', last'.ide), <<"c","o","n","f","i","g","u","r","e","d","_","d","a","t","e">>)
              = Str(toISOString(last'.now))]_vars

\* C25 witness: the config file of one IDE has just been deleted while the other
\* IDE has a saved configuration
C25_Witness ==
  /\ last.op = "delete" /\ ~last.err /\ last.log = <<"remove">>
  /\ \E n \in IdeNames : n # last.ide /\ saves[n] # <<>> /\ hasIdeConfig(fs, n)

\* the entries of names that start neither with 'agents/' nor with 'beat-method/'
OtherContextFiles(names) ==
  SelectSeq(names, LAMBDA n : ~(\/ StartsWith(n, <<"a","g","e","n","t","s","/">>)
                                \/ StartsWith(n, <<"b","e","a","t","-","m","e","t","h","o","d","/">>)))

\* settings.json was valid JSON with an array contextFileName before the last call
HadContextFiles ==
  /\ QwenSettingsPath \in DOMAIN last.pre
  /\ last.pre[QwenSettingsPath].content.json
  /\ last.pre[QwenSettingsPath].content.isArray

\* settings.json holds what it held, without the old agent references
ReferencesRemoved ==
  LET before == last.pre[QwenSettingsPath].content
      after  == fs[QwenSettingsPath].content
  IN /\ after.contextFileName = OtherContextFiles(before.contextFileName)
     /\ after.theme = before.theme
     /\ after.json /\ after.isArray

\* C26 as stated: updateSettings removes from contextFileName exactly the
\* entries that start with 'agents/' or 'beat-method/', keeps the others in order
\* and the other keys as they are, rewrites the file only when an entry was
\* removed, leaves a missing or unparseable file and one without an array
\* unchanged, and never throws.
C26_AsStated ==
  last.op = "updateSettings" =>
    /\ ~last.err
    /\ \A p \in (DOMAIN fs \cup DOMAIN last.pre) \ {QwenSettingsPath} :
         SameEntry(last.pre, fs, p)
    /\ IF HadContextFiles
            /\ OtherContextFiles(last.pre[QwenSettingsPath].content.contextFileName)
                 # last.pre[QwenSettingsPath].content.contextFileName
       THEN ReferencesRemoved
       ELSE fs = last.pre

\* C26: the same, for a settings.json the process may overwrite and whose
\* contextFileName holds strings only; one it may not overwrite, and one with an
\* entry that is no string, is left unchanged as well, and updateSettings does
\* not throw.
C26_SettingsKeepUserEntries ==
  last.op = "updateSettings" =>
    /\ ~last.err
    /\ \A p \in (DOMAIN fs \cup DOMAIN last.pre) \ {QwenSettingsPath} :
         SameEntry(last.pre, fs, p)
    /\ IF HadContextFiles
            /\ OtherContextFiles(last.pre[QwenSettingsPath].content.contextFileName)
                 # last.pre[QwenSettingsPath].content.contextFileName
            /\ last.pre[QwenSettingsPath].mode = "rw"
            /\ (\A i \in 1..Len(last.pre[QwenSettingsPath].content.contextFileName) :
                  IsJsonString(last.pre[QwenSettingsPath].content.contextFileName[i]))
       THEN ReferencesRemoved
       ELSE fs = last.pre

\* C26 witness: updateSettings has removed an old agent reference that stood
\* between two entries it kept, one of them with 'agents/' inside its path
C26_Witness ==
  /\ last.op = "updateSettings" /\ HadContextFiles
  /\ last.pre[QwenSettingsPath].content.contextFileName
       = <<<<"m","y","/","a","g","e","n","t","s","/","a",".","m","d">>, <<"a","g","e","n","t","s","/","d","e","v",".","m","d">>, <<"Q","W","E","N",".","m","d">>>>
  /\ fs[QwenSettingsPath].content.contextFileName = <<<<"m","y","/","a","g","e","n","t","s","/","a",".","m","d">>, <<"Q","W","E","N",".","m","d">>>>

\* the directory Codex and Cline install into
FlatDestDir == IF ide = "codex" THEN getCodexPromptDir ELSE ClineWorkflowsDir

\* detect of the adapter in use
FlatDetect(f) == IF ide = "codex" THEN CodexSetup_detect(f) ELSE ClineSetup_detect(f)

\* the directory d exists in f and has an entry whose name starts with 'beat-'
HasBeatEntry(f, d) ==
  /\ d \in DOMAIN f /\ f[d].type = "dir"
  /\ \E q \in DOMAIN f : Len(q) = Len(d) + 1 /\ Dirname(q) = d /\ StartsWith(q[Len(q)], BeatPrefix)

\* the entries of d, and what lies below them, whose name in d does not start with 'beat-'
Unmarked(f, d) ==
  {q \in DOMAIN f : Len(q) > Len(d) /\ IsUnder(q, d) /\ ~StartsWith(q[Len(d) + 1], BeatPrefix)}

\* in every state detect tells whether the destination holds a 'beat-' entry; a
\* setup that wrote a file leaves detect true; a cleanup that returns leaves it
\* false and the unmarked entries as they were
DetectTellsInstallState ==
  ide \in {"codex", "cline"} =>
    /\ FlatDetect(fs) <=> HasBeatEntry(fs, FlatDestDir)
    /\ (last.op = "setup" /\ Len(last.written) > 0) => FlatDetect(fs)
    /\ (last.op = "cleanup" /\ ~last.err) =>
         /\ ~FlatDetect(fs)
         /\ Unmarked(fs, FlatDestDir) = Unmarked(last.pre, FlatDestDir)
         /\ \A q \in Unmarked(fs, FlatDestDir) : SameEntry(last.pre, fs, q)

\* a cleanup that follows a setup which wrote a file returns, with detect false
CleanupAfterSetup ==
  (ide \in {"codex", "cline"} /\ last.op = "setup" /\ Len(last.written) > 0
     /\ last'.op = "cleanup")
    => (~last'.err /\ ~FlatDetect(fs'))

CleanupWouldCoverSetup ==
  (last.op = "setup" /\ Len(last.written) > 0) =>
    LET c == CleanupOf(ide, fs)
    IN /\ ~c.err
       /\ \A p \in WrittenPaths(last.written) : p \in DOMAIN fs /\ p \notin DOMAIN c.fs

\* a cleanup that follows a setup leaves none of the files the setup wrote
CleanupCoversSetup ==
  (last.op = "setup" /\ last'.op = "cleanup") =>
    \A p \in WrittenPaths(last.written) : p \notin DOMAIN fs'

CollectionFailed ==
  last.op = "setup" /\ \E i \in 1..Len(last.log) : last.log[i] = "collectFailed"

\* C29: in CodexSetup.setup a failure while collecting artifacts leaves the
\* prompt directory exactly as it was: setup throws, it has deleted no 'beat-'
\* prompt and written no file.
C29_FailedCollectionChangesNothing ==
  (ide = "codex" /\ CollectionFailed) =>
    /\ last.err
    /\ last.log = <<"collectFailed">>
    /\ last.written = <<>>
    /\ \A q \in DOMAIN fs \cup DOMAIN last.pre :
         IsUnder(q, getCodexPromptDir) => SameEntry(last.pre, fs, q)
    /\ fs = last.pre

\* C29 witness: a setup of Codex has stopped at a task file it could not read,
\* over a prompt directory that holds 'beat-' prompts and may be written to
C29_Witness ==
  /\ ide = "codex" /\ CollectionFailed
  /\ CodexSetup_detect(last.pre) /\ CodexSetup_detect(fs)
  /\ last.pre[getCodexPromptDir].mode = "rw"
  /\ last.sel # <<>>

\* the kind of a content: the first of the probes '<agent', '<task', '<tool',
\* ('workflow:' or 'name:') that matches, as it is written in the description
DescribedKind(content) ==
  IF Includes(content, <<"<","a","g","e","n","t">>) THEN <<" ","A","g","e","n","t">>
  ELSE IF Includes(content, <<"<","t","a","s","k">>) THEN <<" ","T","a","s","k">>
  ELSE IF Includes(content, <<"<","t","o","o","l">>) THEN <<" ","T","o","o","l">>
  ELSE IF Includes(content, <<"w","o","r","k","f","l","o","w",":">>) \/ Includes(content, <<"n","a","m","e",":">>) THEN <<" ","W","o","r","k","f","l","o","w">>
  ELSE <<>>

\* the title of a content: the value of the first title="..." of an agent, of the
\* first name="..." of a task or a tool, and otherwise metadata.name
DescribedTitle(content, metadata) ==
  LET kind == DescribedKind(content)
      attr == IF kind = <<" ","A","g","e","n","t">> THEN MatchTitleAttr(content)
              ELSE IF kind \in {<<" ","T","a","s","k">>, <<" ","T","o","o","l">>} THEN MatchNameAttr(content)
              ELSE <<>>
  IN IF attr # <<>> THEN attr[1] ELSE metadata.name

\* 'BEAT {MODULE upper-cased} {Kind}: {title}'
Described(content, metadata) ==
  <<"B","E","A","T"," ">> \o ToUpperCase(metadata.module) \o DescribedKind(content) \o <<":"," ">>
    \o DescribedTitle(content, metadata)

\* the description in the MDC header of Cursor's output
CursorDescribes(out, description) ==
  StartsWith(out, <<"-","-","-","\n">> \o <<"d","e","s","c","r","i","p","t","i","o","n",":"," ">> \o description \o <<"\n">> \o <<"g","l","o","b","s",":"," ">> \o <<"\n">>)

\* the description in the first line of Qwen's output
QwenDescribes(out, description) ==
  StartsWith(out, <<"d","e","s","c","r","i","p","t","i","o","n"," ","="," ","\"">> \o description \o <<"\"", "\n">> \o <<"p","r","o","m","p","t"," ","="," ">>)

\* C30: for every content and metadata CursorSetup.processContent and
\* QwenSetup.processContent put the same description into their output: 'BEAT',
\* the module in upper case, the kind by the first matching probe, and the title
\* from the attribute or else metadata.name.
C30_SameDescription ==
  LET d == Described(last.content, last.metadata)
  IN /\ last.cursorDone => CursorDescribes(last.cursor, d)
     /\ last.qwenDone => QwenDescribes(last.qwen, d)
     /\ (last.cursorDone /\ last.qwenDone) =>
          Cursor_description(last.content, last.metadata)
            = Qwen_description(last.content, last.metadata)

\* C30 witness: both classes have processed a content that holds '<tool' before
\* '<task' and a name attribute, and both describe it as the task N of module BMM
C30_Witness ==
  /\ last.cursorDone /\ last.qwenDone
  /\ last.content = <<"<","t","o","o","l","<","t","a","s","k"," ","n","a","m","e","=","\"","N","\"">>
  /\ CursorDescribes(last.cursor, <<"B","E","A","T"," ","B","M","M"," ","T","a","s","k",":"," ","N">>)
  /\ QwenDescribes(last.qwen, <<"B","E","A","T"," ","B","M","M"," ","T","a","s","k",":"," ","N">>)

=============================================================================
